---- MODULE Spec2Model ----
(***************************************************************************)
(* A model of the GPU overclocking advisor: the record store               *)
(* (data_manager.py), the telemetry source (system_monitor.py) and the     *)
(* threads of the application (main.py).                                   *)
(*                                                                         *)
(* Three specifications share the variables:                               *)
(*   Spec     the DataManager driven as an API by one caller;              *)
(*   SpecMon  SystemMonitor.get_realtime_metrics under failing sources;    *)
(*   SpecApp  the UI thread and the background polling thread.             *)
(*                                                                         *)
(* Time.  datetime.now() reads the wall clock, modelled as a count of      *)
(* ticks; TicksPerSec ticks make one second.  isoformat() is an order      *)
(* preserving injection of the instant, so a timestamp is the tick count;  *)
(* strftime("%Y%m%d%H%M%S") is an injection of the second, so an           *)
(* identifier is the second count.  Two consecutive reads with no file     *)
(* operation between them may return the same tick; an operation that      *)
(* opens and writes a file takes at least one tick.                        *)
(***************************************************************************)
EXTENDS Integers, Sequences, FiniteSets, TLC

VARIABLES
    clock,      \* the wall clock, in ticks
    store,      \* recommendations directory: identifier -> text of its file
    log,        \* system_metrics.jsonl: the tokens written so far
    calls,      \* history: the log_metrics calls made, in call order
    last,       \* history: the last DataManager call, its inputs and result
    last_save,  \* history: the last save_recommendation call made
    faults,     \* history: how many file operations have failed
    mon,        \* SpecMon: the last get_realtime_metrics call and its result
    pc,         \* SpecApp: where each thread of control is
    local,      \* SpecApp: each thread's local variables
    stop_logging, \* GPUOCAdvisorApp.stop_logging
    kb,           \* the knowledge base directory: file stamp -> JSON text
    app,          \* the attributes and widgets of GPUOCAdvisorApp, and the Tk event queue
    config_file   \* config.json: absent, or its text

vars == <<clock, store, log, calls, last, last_save, faults, mon, pc, local, stop_logging, kb, app, config_file>>

----------------------------------------------------------------------------
(* Bounds of the model *)

MaxClock == 5
TicksPerSec == 3
MaxLog == 3
MaxFaults == 1
MaxChunks == 2

----------------------------------------------------------------------------
(* Values *)

\* save_recommendation's failure result (data_manager.py:77); identifiers
\* are second counts, so the sentinel is a value no second takes.
ERROR == -1

\* The telemetry snapshots of the __main__ example (data_manager.py:195-199
\* and 213-217), values rounded to integers.
MockMetrics ==
    [gpu |-> [temp_celsius |-> 65, power_draw_watts |-> 200, hash_rate_mhps |-> 50],
     cpu |-> [temperature_celsius |-> 45, usage_percent |-> 15],
     ram |-> [total_gb |-> 16, used_gb |-> 8, usage_percent |-> 50]]

MockNewMetrics ==
    [gpu |-> [temp_celsius |-> 68, power_draw_watts |-> 122, hash_rate_mhps |-> 60],
     cpu |-> [temperature_celsius |-> 46, usage_percent |-> 20],
     ram |-> [total_gb |-> 16, used_gb |-> 8, usage_percent |-> 50]]

Snapshots == {MockMetrics, MockNewMetrics}

\* The argument lists save_recommendation is called with:
\* <<recommendation_text, current_metrics, user_goal, algorithm>>
Requests ==
    {<<"Core Clock: +100MHz", MockMetrics, "Maximize efficiency", "Ethash">>,
     <<"Error: Could not get recommendations from LLM.", MockNewMetrics, "hashrate", "KawPow">>}

EmptyDict == [k \in {} |-> k]

\* An optional dict argument: absent (None) or a dict.
NoDict == [given |-> FALSE, val |-> EmptyDict]
SomeDict(d) == [given |-> TRUE, val |-> d]

\* Python truthiness of an optional dict: None and {} are falsy.
DictTruthy(a) == a.given /\ DOMAIN a.val # {}

\* The statuses an update sets (data_manager.py:83, main.py:484)
StatusOptions == {"APPLIED", "FAILED", "REVERTED", "CANCELLED"}

\* The argument lists update_recommendation_status is called with, after the
\* identifier: <<status, actual_metrics, notes>>.  The first is the call of
\* the __main__ example; the second leaves both defaults; the update dialog
\* passes {} when no figure was entered, and a "gpu" mapping otherwise.
UpdateCalls ==
    {<<"APPLIED", SomeDict(MockNewMetrics), "Stable and efficient!">>,
     <<"FAILED", NoDict, "">>,
     <<"REVERTED", SomeDict(EmptyDict), "crashed">>,
     <<"CANCELLED", SomeDict([gpu |-> [hash_rate_mhps |-> 60]]), "">>}

\* How a file operation can go: it works, open() raises, or a write raises
\* after the file was opened.
IOOutcomes == {"ok", "open_fails", "write_fails"}

Sec(t) == t \div TicksPerSec
Ids == 0 .. Sec(MaxClock)

Range(s) == {s[i] : i \in DOMAIN s}

----------------------------------------------------------------------------
(* JSON text.  A Python dict is a function from its keys; json.dump writes  *)
(* the members one after the other and the closing brace last, json.load    *)
(* rebuilds the dict from the members and rejects a text that is not closed.*)

KeyOrder ==
    <<"llm_model_name", "ollama_base_url", "gpu_brand", "target_temperature_celsius",
      "priority", "data_collection_interval_seconds", "app_data_dir",
      "content", "source", "id", "timestamp", "user_goal", "mining_algorithm",
      "system_snapshot_at_recommendation", "llm_recommendation_text",
      "applied_status", "actual_performance_after_apply", "user_notes",
      "last_updated", "metrics", "test_context">>

JsonDump(d) ==
    LET ks == SelectSeq(KeyOrder, LAMBDA k : k \in DOMAIN d)
    IN  [closed |-> TRUE, members |-> [i \in 1 .. Len(ks) |-> <<ks[i], d[ks[i]]>>]]

JsonValid(text) == text.closed

JsonLoad(text) ==
    [k \in {m[1] : m \in Range(text.members)} |->
        (CHOOSE m \in Range(text.members) : m[1] = k)[2]]

\* What a file holds when the writes of a dump stop after the first member:
\* a text json.load rejects.
Torn(text) == [closed |-> FALSE, members |-> SubSeq(text.members, 1, 1)]

DictSet(d, k, v) == [x \in DOMAIN d \cup {k} |-> IF x = k THEN v ELSE d[x]]

\* dict.update(other)
DictUpdate(d, other) ==
    [x \in DOMAIN d \cup DOMAIN other |-> IF x \in DOMAIN other THEN other[x] ELSE d[x]]

----------------------------------------------------------------------------
(* DataManager: recommendation documents *)

\* strftime("%Y%m%d%H%M%S") of the instant t: the identifier
RecId(t) == Sec(t)

\* faulty variant: the goal and the algorithm stored under each other's key
RecDataSwapped(rec_id, ts, user_goal, algorithm, current_metrics, recommendation_text) ==
    [id |-> rec_id,
     timestamp |-> ts,
     user_goal |-> algorithm,
     mining_algorithm |-> user_goal,
     system_snapshot_at_recommendation |-> current_metrics,
     llm_recommendation_text |-> recommendation_text,
     applied_status |-> "PENDING_USER_APPLY",
     actual_performance_after_apply |-> EmptyDict]

\* the dict literal rec_data
RecData(rec_id, ts, user_goal, algorithm, current_metrics, recommendation_text) ==
    [id |-> rec_id,
     timestamp |-> ts,
     user_goal |-> user_goal,
     mining_algorithm |-> algorithm,
     system_snapshot_at_recommendation |-> current_metrics,
     llm_recommendation_text |-> recommendation_text,
     applied_status |-> "PENDING_USER_APPLY",
     actual_performance_after_apply |-> EmptyDict]

\* os.path.exists(rec_file_path)
Exists(s, rec_id) == rec_id \in DOMAIN s

\* the file of rec_id holds text
FilePut(s, rec_id, text) ==
    [x \in DOMAIN s \cup {rec_id} |-> IF x = rec_id THEN text ELSE s[x]]

\* faulty variant: the file opened for exclusive creation: an existing document stays
SaveStoreKeepFirst(s, rec_id, rec_data, io) ==
    IF rec_id \in DOMAIN s \/ io = "open_fails" THEN s
    ELSE IF io = "ok" THEN FilePut(s, rec_id, JsonDump(rec_data))
    ELSE FilePut(s, rec_id, Torn(JsonDump(rec_data)))

\* save_recommendation: the store after the call.  open(path, 'w') creates or
\* truncates the file; json.dump then writes the document.
SaveStore(s, rec_id, rec_data, io) ==
    CASE io = "ok"          -> FilePut(s, rec_id, JsonDump(rec_data))
      [] io = "open_fails"  -> s
      [] io = "write_fails" -> FilePut(s, rec_id, Torn(JsonDump(rec_data)))

\* save_recommendation: the value returned
SaveResult(rec_id, io) == IF io = "ok" THEN rec_id ELSE ERROR

\* faulty variant: the update that does not stamp last_updated
UpdatedDataNoStamp(data, status, actual_metrics, notes, now) ==
    LET d1 == DictSet(data, "applied_status", status)
        d2 == IF DictTruthy(actual_metrics)
              THEN DictSet(d1, "actual_performance_after_apply", actual_metrics.val)
              ELSE d1
    IN  IF notes # "" THEN DictSet(d2, "user_notes", notes) ELSE d2

\* faulty variant: the update stamps the creation timestamp as well
UpdatedDataRestamped(data, status, actual_metrics, notes, now) ==
    LET d1 == DictSet(data, "applied_status", status)
        d2 == IF DictTruthy(actual_metrics)
              THEN DictSet(d1, "actual_performance_after_apply", actual_metrics.val)
              ELSE d1
        d3 == IF notes # "" THEN DictSet(d2, "user_notes", notes) ELSE d2
    IN  DictSet(DictSet(d3, "last_updated", now), "timestamp", now)

\* update_recommendation_status: the dict written back
UpdatedData(data, status, actual_metrics, notes, now) ==
    LET d1 == DictSet(data, "applied_status", status)
        d2 == IF DictTruthy(actual_metrics)
              THEN DictSet(d1, "actual_performance_after_apply", actual_metrics.val)
              ELSE d1
        d3 == IF notes # "" THEN DictSet(d2, "user_notes", notes) ELSE d2
    IN  DictSet(d3, "last_updated", now)

\* update_recommendation_status: what the call reports (its printed message)
UpdateOutcome(s, rec_id, io) ==
    IF ~Exists(s, rec_id) THEN "not_found"
    ELSE IF io = "ok" /\ JsonValid(s[rec_id]) THEN "updated"
    ELSE "error"

\* faulty variant: no existence check, the file opened for writing: a missing
\* document is created
UpdateStoreUpsert(s, rec_id, status, actual_metrics, notes, now, io) ==
    IF io = "open_fails" THEN s
    ELSE LET data == IF rec_id \in DOMAIN s /\ JsonValid(s[rec_id])
                     THEN JsonLoad(s[rec_id]) ELSE [id |-> rec_id]
             text == JsonDump(UpdatedData(data, status, actual_metrics, notes, now))
         IN  IF io = "ok" THEN FilePut(s, rec_id, text)
             ELSE FilePut(s, rec_id, Torn(text))

\* faulty variant: the file opened with 'w', which empties it before the
\* document is parsed
UpdateStoreTruncating(s, rec_id, status, actual_metrics, notes, now, io) ==
    IF ~Exists(s, rec_id) \/ io = "open_fails" THEN s
    ELSE IF ~JsonValid(s[rec_id]) THEN FilePut(s, rec_id, [closed |-> FALSE, members |-> <<>>])
    ELSE LET text == JsonDump(UpdatedData(JsonLoad(s[rec_id]), status, actual_metrics, notes, now))
         IN  IF io = "ok" THEN FilePut(s, rec_id, text)
             ELSE FilePut(s, rec_id, Torn(text))

\* update_recommendation_status: the store after the call
UpdateStore(s, rec_id, status, actual_metrics, notes, now, io) ==
    IF ~Exists(s, rec_id) THEN s
    ELSE IF io = "open_fails" \/ ~JsonValid(s[rec_id]) THEN s
    ELSE LET text == JsonDump(UpdatedData(JsonLoad(s[rec_id]), status, actual_metrics, notes, now))
         IN  IF io = "ok" THEN FilePut(s, rec_id, text)
             ELSE FilePut(s, rec_id, Torn(text))

\* load_recommendation: the dict, or None
LoadRecommendation(s, rec_id, io) ==
    IF Exists(s, rec_id) /\ io = "ok" /\ JsonValid(s[rec_id])
    THEN SomeDict(JsonLoad(s[rec_id]))
    ELSE NoDict

\* faulty variant: the sort key is the time of the last change
TimestampKeyLastChange(x) ==
    IF "last_updated" \in DOMAIN x THEN x["last_updated"]
    ELSE IF "timestamp" \in DOMAIN x THEN x["timestamp"] ELSE -1

\* recommendations.sort(key=lambda x: x.get('timestamp', ''), reverse=True):
\* the key; a record without the field sorts as the empty string, below all
TimestampKey(x) == IF "timestamp" \in DOMAIN x THEN x["timestamp"] ELSE -1

\* x goes behind every element whose key is at least its own (the sort is stable)
InsertDesc(sorted, x) ==
    LET ahead == {i \in 1 .. Len(sorted) : TimestampKey(sorted[i]) >= TimestampKey(x)}
        n == Cardinality(ahead)
    IN  SubSeq(sorted, 1, n) \o <<x>> \o SubSeq(sorted, n + 1, Len(sorted))

RECURSIVE SortRecommendations(_)
SortRecommendations(recs) ==
    IF recs = <<>> THEN <<>>
    ELSE InsertDesc(SortRecommendations(SubSeq(recs, 1, Len(recs) - 1)), recs[Len(recs)])

\* os.listdir returns the files in an arbitrary order
Listings(s) ==
    {l \in [1 .. Cardinality(DOMAIN s) -> DOMAIN s] : Range(l) = DOMAIN s}

\* faulty variant: the first document that cannot be read ends the loop
RECURSIVE LoadedRecordsUntilBad(_, _)
LoadedRecordsUntilBad(s, listing) ==
    IF listing = <<>> THEN <<>>
    ELSE LET rec == LoadRecommendation(s, listing[1], "ok")
         IN  IF DictTruthy(rec) THEN <<rec.val>> \o LoadedRecordsUntilBad(s, Tail(listing))
             ELSE <<>>

\* the loop of load_all_recommendations: the records appended, in listing order
RECURSIVE LoadedRecords(_, _)
LoadedRecords(s, listing) ==
    IF listing = <<>> THEN <<>>
    ELSE LET rec == LoadRecommendation(s, listing[1], "ok")
             rest == LoadedRecords(s, Tail(listing))
         IN  IF DictTruthy(rec) THEN <<rec.val>> \o rest ELSE rest

\* load_all_recommendations
LoadAllRecommendations(s, listing) == SortRecommendations(LoadedRecords(s, listing))

----------------------------------------------------------------------------
(* DataManager: the metrics log.  The file is the sequence of tokens        *)
(* written to it: the JSON text of an entry, or a line terminator.          *)

NL == <<"nl">>
JsonToken(text) == <<"json", text>>

Contexts == {NoDict, SomeDict([test_context |-> "initial_state"])}

\* the dict log_entry
LogEntry(now, metrics, context) ==
    LET log_entry == [timestamp |-> now, metrics |-> metrics]
    IN  IF DictTruthy(context) THEN DictUpdate(log_entry, context.val) ELSE log_entry

\* json.dumps(log_entry) + '\n', the argument of the one f.write
LogLine(log_entry) == <<JsonToken(JsonDump(log_entry)), NL>>

\* faulty variant: the line is written at the start of the file
LogAppendAtStart(file, line, io) == IF io = "ok" THEN line \o file ELSE file

\* faulty variant: the log opened with 'w': each call truncates it
LogAppendTruncating(file, line, io) == IF io = "ok" THEN line ELSE file

\* faulty variant: the entry and the terminator written by two write operations
WriteOpsSplit(line) == <<<<line[1]>>, <<line[2]>>>>

\* the write operations log_metrics makes on the file, each appending its
\* argument in one piece: the single f.write of the whole line
WriteOps(line) == <<line>>

\* with open(self.log_file, 'a') as f: f.write(...): the file after the call
LogAppend(file, line, io) == IF io = "ok" THEN file \o line ELSE file

\* the file as a reader splits it into lines: the tokens up to each
\* terminator, and what follows the last terminator if anything does
RECURSIVE SplitLines(_, _)
SplitLines(file, cur) ==
    IF file = <<>> THEN (IF cur = <<>> THEN <<>> ELSE <<cur>>)
    ELSE IF Head(file) = NL THEN <<cur>> \o SplitLines(Tail(file), <<>>)
    ELSE SplitLines(Tail(file), Append(cur, Head(file)))

Lines(file) == SplitLines(file, <<>>)

\* a line that parses as one log entry: one JSON text, complete
IsEntryLine(line) == Len(line) = 1 /\ line[1][1] = "json" /\ JsonValid(line[1][2])

\* the entry a line holds
EntryOf(line) == JsonLoad(line[1][2])

----------------------------------------------------------------------------
(* Initial state: a fresh data directory (DataManager.__init__ makes the    *)
(* directories; no file exists yet) and an application not yet started.     *)

NoCall == [op |-> "none"]

\* the local variables of a thread inside its metrics iteration: the snapshot
\* captured and the writes of log_metrics still to be made
NoLocals == [metrics |-> EmptyDict, pending |-> <<>>]

None == [given |-> FALSE]

\* default_config of _load_config
DefaultConfig ==
    [llm_model_name |-> "llama3", ollama_base_url |-> "http://localhost:11434",
     gpu_brand |-> "NVIDIA", target_temperature_celsius |-> 70, priority |-> "efficiency",
     data_collection_interval_seconds |-> 10, app_data_dir |-> "app_data"]

\* the attributes of the application object as __init__ sets them and the
\* widgets as _create_widgets builds them.  queue holds the callbacks passed
\* to master.after(0, ...) that the event loop has not run yet, workers the
\* arguments of the _fetch_recommendation_task threads started and not yet
\* finished, messagebox the box the last handler showed.
AppInit ==
    [current_metrics |-> EmptyDict, current_recommendation_id |-> None,
     get_rec_button |-> "normal", status_bar |-> "Ready.",
     llm_output_display |-> "", messagebox |-> None,
     queue |-> <<>>, workers |-> <<>>]

Init ==
    /\ clock = 0
    /\ store = EmptyDict
    /\ log = <<>>
    /\ calls = <<>>
    /\ last = NoCall
    /\ last_save = NoCall
    /\ faults = 0
    /\ mon = NoCall
    /\ pc = [ui |-> "init", poll |-> "init"]
    /\ local = [ui |-> NoLocals, poll |-> NoLocals]
    /\ stop_logging = FALSE
    /\ kb = EmptyDict
    /\ app = AppInit
    /\ config_file = JsonDump(DefaultConfig)

AppVars == <<mon, pc, local, stop_logging, app, config_file>>

----------------------------------------------------------------------------
(* Spec: the recommendation documents of the DataManager, called by one     *)
(* caller, one call after the other                                         *)

\* a file operation may fail while the bound on failures is not reached
CanFail(io) == io # "ok" => faults < MaxFaults
Failed(io) == IF io = "ok" THEN faults ELSE faults + 1

\* time passes between two calls
Tick ==
    /\ clock < MaxClock
    /\ clock' = clock + 1
    /\ UNCHANGED <<store, log, calls, last, last_save, faults, AppVars, kb>>

\* save_recommendation(text, metrics, goal, algorithm).  The identifier is
\* read from the clock first, the timestamp second, d ticks later.
Save(text, metrics, goal, algorithm, d, io) ==
    /\ clock + d < MaxClock
    /\ CanFail(io)
    /\ faults' = Failed(io)
    /\ LET rec_id == RecId(clock)
           rec_data == RecData(rec_id, clock + d, goal, algorithm, metrics, text)
           call == [op |-> "save", t |-> clock, text |-> text, metrics |-> metrics,
                    goal |-> goal, algorithm |-> algorithm, io |-> io,
                    ret |-> SaveResult(rec_id, io), prev |-> last_save]
       IN  /\ store' = SaveStore(store, rec_id, rec_data, io)
           /\ last' = call
           /\ last_save' = [op |-> "save", t |-> clock, ret |-> call.ret, text |-> text]
    /\ clock' = clock + d + 1
    /\ UNCHANGED <<log, calls, AppVars, kb>>

\* update_recommendation_status(rec_id, status, actual_metrics, notes)
Update(rec_id, status, actual_metrics, notes, io) ==
    /\ clock < MaxClock
    /\ CanFail(io)
    /\ faults' = Failed(io)
    /\ store' = UpdateStore(store, rec_id, status, actual_metrics, notes, clock, io)
    /\ last' = [op |-> "update", t |-> clock, rec_id |-> rec_id, status |-> status,
                actual_metrics |-> actual_metrics, notes |-> notes, io |-> io,
                outcome |-> UpdateOutcome(store, rec_id, io)]
    /\ clock' = IF Exists(store, rec_id) THEN clock + 1 ELSE clock
    /\ UNCHANGED <<log, calls, last_save, AppVars, kb>>

\* load_recommendation(rec_id)
Load(rec_id, io) ==
    /\ CanFail(io)
    /\ faults' = Failed(io)
    /\ last' = [op |-> "load", rec_id |-> rec_id, io |-> io,
                ret |-> LoadRecommendation(store, rec_id, io)]
    /\ UNCHANGED <<clock, store, log, calls, last_save, AppVars, kb>>

\* load_all_recommendations()
LoadAll(listing) ==
    /\ UNCHANGED faults
    /\ last' = [op |-> "load_all", listing |-> listing,
                ret |-> LoadAllRecommendations(store, listing)]
    /\ UNCHANGED <<clock, store, log, calls, last_save, AppVars, kb>>

Next ==
    \/ Tick
    \/ \E r \in Requests, d \in 0 .. 1, io \in IOOutcomes :
          Save(r[1], r[2], r[3], r[4], d, io)
    \/ \E rec_id \in Ids \cup {ERROR}, u \in UpdateCalls, io \in IOOutcomes :
          Update(rec_id, u[1], u[2], u[3], io)
    \/ \E rec_id \in Ids \cup {ERROR}, io \in {"ok", "open_fails"} : Load(rec_id, io)
    \/ \E listing \in Listings(store) : LoadAll(listing)

Spec == Init /\ [][Next]_vars

----------------------------------------------------------------------------
(* SpecLog: the metrics log of the DataManager, appended to by one caller *)

\* log_metrics(metrics, context)
LogMetrics(metrics, context, io) ==
    /\ clock < MaxClock
    /\ CanFail(io)
    /\ faults' = Failed(io)
    /\ Len(calls) < MaxLog
    /\ log' = LogAppend(log, LogLine(LogEntry(clock, metrics, context)), io)
    /\ calls' = Append(calls, [t |-> clock, metrics |-> metrics, context |-> context, io |-> io])
    /\ clock' = clock + 1
    /\ UNCHANGED <<store, last, last_save, AppVars, kb>>

NextLog ==
    \/ Tick
    \/ \E metrics \in Snapshots, context \in Contexts, io \in IOOutcomes :
          LogMetrics(metrics, context, io)

SpecLog == Init /\ [][NextLog]_vars

----------------------------------------------------------------------------
(* SpecData: every operation of the DataManager, in any order, with the     *)
(* inputs of the example at the end of data_manager.py.  Time passes with   *)
(* the operations that write a file; the file operations that can fail are  *)
(* those of the log and of the knowledge base.                              *)

\* the chunk added by the example
ExampleChunk ==
    <<"RTX 3070 often undervolts well.", [source |-> "online_guide", url |-> "example.com/guide"]>>

\* strftime('%Y%m%d%H%M%S%f') of the instant t: the stamp in the file name
ChunkStamp(t) == t

ChunkData(content, source_info, ts) ==
    [content |-> content, source |-> source_info, timestamp |-> ts]

\* add_knowledge_chunk(content, source_info)
AddKnowledgeChunk(content, source_info, io) ==
    /\ clock < MaxClock
    /\ Cardinality(DOMAIN kb) < MaxChunks
    /\ CanFail(io)
    /\ faults' = Failed(io)
    /\ LET text == JsonDump(ChunkData(content, source_info, clock))
       IN  kb' = IF io = "ok" THEN DictSet(kb, ChunkStamp(clock), text)
                 ELSE IF io = "write_fails" THEN DictSet(kb, ChunkStamp(clock), Torn(text))
                 ELSE kb
    /\ last' = [op |-> "add_chunk", t |-> clock, io |-> io]
    /\ clock' = clock + 1
    /\ UNCHANGED <<store, log, calls, last_save, AppVars>>

\* the loop of get_knowledge_chunks: the chunks appended, in listing order
RECURSIVE LoadedChunks(_, _)
LoadedChunks(k, listing) ==
    IF listing = <<>> THEN <<>>
    ELSE LET rest == LoadedChunks(k, Tail(listing))
         IN  IF JsonValid(k[listing[1]]) THEN <<JsonLoad(k[listing[1]])>> \o rest ELSE rest

\* get_knowledge_chunks()
GetKnowledgeChunks(listing) ==
    /\ last' = [op |-> "get_chunks", listing |-> listing, ret |-> LoadedChunks(kb, listing)]
    /\ UNCHANGED <<clock, store, log, calls, last_save, faults, kb, AppVars>>

\* the save, the update and the log calls of the example
ExampleRequest == <<"Core Clock: +100MHz", MockMetrics, "Maximize efficiency", "Ethash">>
ExampleUpdate == <<"APPLIED", SomeDict(MockNewMetrics), "Stable and efficient!">>

NextData ==
    \/ \E context \in Contexts, io \in {"ok", "open_fails"} : LogMetrics(MockMetrics, context, io)
    \/ Save(ExampleRequest[1], ExampleRequest[2], ExampleRequest[3], ExampleRequest[4], 0, "ok")
    \/ \E rec_id \in Ids : Update(rec_id, ExampleUpdate[1], ExampleUpdate[2], ExampleUpdate[3], "ok")
    \/ \E rec_id \in Ids : Load(rec_id, "ok")
    \/ \E listing \in Listings(store) : LoadAll(listing)
    \/ \E io \in {"ok", "write_fails"} : AddKnowledgeChunk(ExampleChunk[1], ExampleChunk[2], io)
    \/ \E listing \in Listings(kb) : GetKnowledgeChunks(listing)

SpecData == Init /\ [][NextData]_vars

----------------------------------------------------------------------------
(* Claims about the recommendation documents (Spec) *)

Loaded(rec_id) == LoadRecommendation(store, rec_id, "ok")

\* C1: a save_recommendation call that returns an identifier (the file was
\* written; the other result is the failure value ERROR), followed at once
\* by load_recommendation of that identifier, yields a record with status
\* PENDING_USER_APPLY, an empty actual_performance_after_apply, and exactly
\* the text, snapshot, goal and algorithm that were passed.
C1_SaveThenLoad ==
    (last.op = "save" /\ last.ret # ERROR) =>
        /\ Loaded(last.ret).given
        /\ LET rec == Loaded(last.ret).val
           IN  /\ rec["applied_status"] = "PENDING_USER_APPLY"
               /\ rec["actual_performance_after_apply"] = EmptyDict
               /\ rec["llm_recommendation_text"] = last.text
               /\ rec["system_snapshot_at_recommendation"] = last.metrics
               /\ rec["user_goal"] = last.goal
               /\ rec["mining_algorithm"] = last.algorithm

C1_Witness ==
    /\ last.op = "save"
    /\ last.ret # ERROR
    /\ Loaded(last.ret).given
    /\ Loaded(last.ret).val["llm_recommendation_text"] = last.text

\* C2: an update of an existing record with a non-empty metrics mapping and
\* non-empty notes, followed by load_recommendation, returns a record with
\* the new status, the given mapping and the given notes, and a last_updated
\* timestamp strictly greater than the creation timestamp.
C2_UpdateThenLoad ==
    (/\ last.op = "update"
     /\ last.outcome = "updated"
     /\ DictTruthy(last.actual_metrics)
     /\ last.notes # "") =>
        /\ Loaded(last.rec_id).given
        /\ LET rec == Loaded(last.rec_id).val
           IN  /\ rec["applied_status"] = last.status
               /\ rec["actual_performance_after_apply"] = last.actual_metrics.val
               /\ "user_notes" \in DOMAIN rec
               /\ rec["user_notes"] = last.notes
               /\ "last_updated" \in DOMAIN rec
               /\ rec["last_updated"] > rec["timestamp"]

C2_Witness ==
    /\ last.op = "update"
    /\ last.outcome = "updated"
    /\ DictTruthy(last.actual_metrics)
    /\ last.notes # ""
    /\ Loaded(last.rec_id).given
    /\ Loaded(last.rec_id).val["applied_status"] = "APPLIED"

\* C3: an update of an identifier that has no document reports not-found and
\* leaves the store as it was: the same documents with the same content.
C3_UpdateMissing ==
    [][(/\ last'.op = "update"
        /\ last' # last
        /\ ~Exists(store, last'.rec_id)) =>
            /\ last'.outcome = "not_found"
            /\ store' = store]_vars

C3_Witness ==
    /\ last.op = "update"
    /\ last.outcome = "not_found"
    /\ ~Exists(store, last.rec_id)
    /\ store # EmptyDict

IsSortedDesc(recs) ==
    \A i, j \in 1 .. Len(recs) : i < j => recs[i]["timestamp"] >= recs[j]["timestamp"]

IdsOf(recs) == [i \in 1 .. Len(recs) |-> recs[i]["id"]]

C5_Sorted ==
    last.op = "load_all" =>
        /\ IsSortedDesc(last.ret)
        /\ Range(last.ret) = {Loaded(id).val : id \in {x \in DOMAIN store : Loaded(x).given}}
        /\ Len(last.ret) = Cardinality({x \in DOMAIN store : Loaded(x).given})

C5_UpdateKeepsOrder ==
    (/\ last'.op = "update"
     /\ last' # last
     /\ last'.outcome = "updated") =>
        \A l \in Listings(store) :
            IdsOf(LoadAllRecommendations(store', l)) = IdsOf(LoadAllRecommendations(store, l))

C5_ListOrder == []C5_Sorted /\ [][C5_UpdateKeepsOrder]_vars

\* two records, the older of them updated after the newer was created
C5_Witness ==
    /\ last.op = "load_all"
    /\ Len(last.ret) >= 2
    /\ "last_updated" \in DOMAIN last.ret[2]
    /\ last.ret[2]["last_updated"] > last.ret[1]["timestamp"]
    /\ last.ret[2]["timestamp"] < last.ret[1]["timestamp"]

----------------------------------------------------------------------------
(* Claims about the metrics log (SpecLog) *)

\* the calls whose file operation did not fail, in call order
Written == SelectSeq(calls, LAMBDA c : c.io = "ok")

\* C6: the log_metrics calls made (those whose append did not fail) have
\* produced exactly one line each: the log has as many lines as calls, each
\* line is one complete entry holding the snapshot of the corresponding call,
\* and the lines are in the order of the calls.
C6_OneLinePerCall ==
    /\ Len(Lines(log)) = Len(Written)
    /\ \A i \in 1 .. Len(Lines(log)) :
          /\ IsEntryLine(Lines(log)[i])
          /\ EntryOf(Lines(log)[i])["metrics"] = Written[i].metrics
          /\ EntryOf(Lines(log)[i])["timestamp"] = Written[i].t

C6_Witness ==
    /\ Len(calls) = MaxLog
    /\ Len(Written) = MaxLog
    /\ Len(Lines(log)) = MaxLog
    /\ calls[1].metrics # calls[2].metrics

----------------------------------------------------------------------------
(* Claims about updates of a record (Spec) *)

\* the step is a call of update_recommendation_status that rewrote its document
UpdatedStep ==
    /\ last'.op = "update"
    /\ last'.t = clock
    /\ last'.outcome = "updated"

\* the value of a key of a record, or the marker of an absent key
Field(rec, key) == IF key \in DOMAIN rec THEN <<"set", rec[key]>> ELSE <<"absent">>

\* C17: a successful update sets the status to the one given; it replaces the
\* actual-metrics mapping by the one given whenever one is given, the empty
\* mapping included, and keeps the stored one otherwise; it sets the notes to
\* the ones given when they are non-empty and otherwise keeps the stored
\* notes, or their absence.
C17_MergeStep ==
    UpdatedStep =>
        LET old == JsonLoad(store[last'.rec_id])
            new == JsonLoad(store'[last'.rec_id])
        IN  /\ new["applied_status"] = last'.status
            /\ new["actual_performance_after_apply"] =
                   IF last'.actual_metrics.given THEN last'.actual_metrics.val
                   ELSE old["actual_performance_after_apply"]
            /\ Field(new, "user_notes") =
                   IF last'.notes # "" THEN <<"set", last'.notes>> ELSE Field(old, "user_notes")

C17_UpdateMerge == [][C17_MergeStep]_vars

\* the status stored under an identifier, or none when no readable document is
StatusOf(s, rec_id) ==
    IF Exists(s, rec_id) /\ JsonValid(s[rec_id])
    THEN JsonLoad(s[rec_id])["applied_status"] ELSE "none"

\* the step is a call of save_recommendation that wrote its document
SavedStep == last'.op = "save" /\ last'.t = clock /\ last'.ret # ERROR

\* C18: a save stores its record with status PENDING_USER_APPLY; an update
\* stores one of the four statuses of the dialog; and once the record under
\* an identifier has one of the four, no step makes the record under that
\* identifier PENDING_USER_APPLY again.
C18_StatusStep ==
    /\ SavedStep => StatusOf(store', last'.ret) = "PENDING_USER_APPLY"
    /\ UpdatedStep => StatusOf(store', last'.rec_id) = last'.status
    /\ \A rec_id \in Ids :
          StatusOf(store, rec_id) \in StatusOptions =>
              StatusOf(store', rec_id) # "PENDING_USER_APPLY"

C18_StatusLinear == [][C18_StatusStep]_vars

----------------------------------------------------------------------------
(* Claims about the DataManager as a whole (SpecData) *)

\* C19: in every step of every operation of the DataManager the content of
\* the metrics log before the step is a prefix of its content after it:
\* nothing written is changed, moved or removed.
C19_AppendOnly ==
    [][Len(log) <= Len(log') /\ SubSeq(log', 1, Len(log)) = log]_vars

\* two entries are in the log, and a record was saved and updated and a chunk
\* added after the first of them was written
C19_Witness ==
    /\ Len(Lines(log)) >= 2
    /\ last_save.op = "save"
    /\ calls[1].t < last_save.t
    /\ \E rec_id \in DOMAIN store : StatusOf(store, rec_id) = "APPLIED"
    /\ kb # EmptyDict
    /\ last.op = "get_chunks"

----------------------------------------------------------------------------
(* SystemMonitor.get_realtime_metrics.  A metric value is a number or a     *)
(* string; the strings the code stores all start with "N/A", the            *)
(* unavailable marker.                                                      *)

MaxFailing == 1

Num(n) == <<"num", n>>
Str(x) == <<"str", x>>
IsNumeric(v) == v[1] = "num"
IsUnavailable(v) == v[1] = "str"

NotAvailable == Str("N/A")

\* the GPU readings, in the order the NVIDIA branch takes them
GpuReadings ==
    <<"temp_celsius", "hotspot_temp_celsius", "power_draw_watts", "core_clock_mhz",
      "memory_clock_mhz", "fan_speed_percent", "vram_used_mb">>

\* the calls of the NVIDIA try block, in order
NvmlSteps == <<"nvmlInit", "nvmlDeviceGetHandleByIndex">> \o GpuReadings

PsutilSources == {"virtual_memory", "cpu_percent", "sensors_temperatures"}
Sources == Range(NvmlSteps) \cup {"nvmlShutdown"} \cup PsutilSources

\* how a call to a source can fail: a psutil call raises; a vendor call raises
\* NVMLError_NotSupported or another NVMLError
BadOutcomes(src) ==
    IF src \in PsutilSources THEN {"raises"}
    ELSE IF src = "nvmlShutdown" THEN {"NVMLError"}
    ELSE IF src \in {"nvmlInit", "nvmlDeviceGetHandleByIndex"} THEN {"NVMLError"}
    ELSE {"NotSupported", "NVMLError"}

AllOk == [src \in Sources |-> "ok"]

RECURSIVE FailMaps(_)
FailMaps(k) ==
    IF k = 0 THEN {AllOk}
    ELSE FailMaps(k - 1) \cup
         {[f EXCEPT ![src] = o] : f \in FailMaps(k - 1), src \in Sources, o \in {"NotSupported", "NVMLError", "raises"}}

Failing(fail) == {src \in Sources : fail[src] # "ok"}

\* the constants of pynvml the code tests with hasattr, by the reading they guard
NvmlAttr ==
    [temp_celsius |-> "NVML_TEMP_GPU", hotspot_temp_celsius |-> "NVML_TEMP_GPU_MEM",
     core_clock_mhz |-> "NVML_CLOCK_GRAPHICS", memory_clock_mhz |-> "NVML_CLOCK_MEM"]

Brands == {"NVIDIA", "AMD", "INTEL"}
Systems == {"Linux", "Windows"}
Sensors == {"coretemp", "k10temp", "cpu_thermal", "acpitz"}

\* what amdgpu_top --json gives: the tool is missing, it exits non-zero, its
\* output does not parse, it lists no card, or it lists a card
AmdOutcomes == {"not_found", "exit_nonzero", "bad_json", "no_cards", "card"}

\* the platforms: <<gpu_brand, NVIDIA_NVML_AVAILABLE, platform.system()>>
Platforms == Brands \X BOOLEAN \X Systems

\* faulty variant: the AMD branch is taken on every operating system
AmdPlatformAnyOs(p) == ~(p[1] = "NVIDIA" /\ p[2]) /\ p[1] = "AMD"

\* the branch taken for the GPU block
NvidiaPlatform(p) == p[1] = "NVIDIA" /\ p[2]
AmdPlatform(p) == ~NvidiaPlatform(p) /\ p[1] = "AMD" /\ p[3] = "Linux"

\* the outcomes of the sources, at most MaxFailing of them failing
FailCases ==
    {g \in FailMaps(MaxFailing) : \A src \in Failing(g) : g[src] \in BadOutcomes(src)}

\* what psutil reports: no sensors_temperatures on the platform, or the sensor
CpuCases == {<<FALSE, "coretemp">>} \cup {<<TRUE, sn>> : sn \in Sensors}

Env(p, f, m, c, am, ab) ==
    [gpu_brand |-> p[1], nvml_available |-> p[2], os |-> p[3], fail |-> f, missing |-> m,
     has_sensors |-> c[1], sensor |-> c[2], amd |-> am, absent |-> ab]

\* The environments of a call: the platform, the outcome of each source, the
\* pynvml constants that are missing, the sensors psutil reports, and what
\* amdgpu_top gives.  What a branch does not read is left at one value.
Envs ==
    {Env(p, f, m, c, "card", {}) :
        p \in {q \in Platforms : NvidiaPlatform(q)}, f \in FailCases,
        m \in {{}} \cup {{NvmlAttr[r]} : r \in DOMAIN NvmlAttr}, c \in CpuCases}
    \cup
    {Env(p, f, {}, c, am[1], am[2]) :
        p \in {q \in Platforms : AmdPlatform(q)},
        f \in {g \in FailCases : Failing(g) \subseteq PsutilSources}, c \in CpuCases,
        am \in {<<o, {}>> : o \in AmdOutcomes} \cup {<<"card", {r}>> : r \in Range(GpuReadings)}}
    \cup
    {Env(p, f, {}, c, "card", {}) :
        p \in {q \in Platforms : ~NvidiaPlatform(q) /\ ~AmdPlatform(q)},
        f \in {g \in FailCases : Failing(g) \subseteq PsutilSources}, c \in CpuCases}

\* the value a working source reports for a reading
Reading(r) ==
    CASE r = "temp_celsius" -> 65
      [] r = "hotspot_temp_celsius" -> 80
      [] r = "power_draw_watts" -> 200000 \div 1000
      [] r = "core_clock_mhz" -> 1500
      [] r = "memory_clock_mhz" -> 7000
      [] r = "fan_speed_percent" -> 70
      [] r = "vram_used_mb" -> (1024 * 1024 * 1024) \div (1024 * 1024)

NvidiaBranch(env) == NvidiaPlatform(<<env.gpu_brand, env.nvml_available, env.os>>)
AmdBranch(env) == AmdPlatform(<<env.gpu_brand, env.nvml_available, env.os>>)

\* the call of a step is made unless the constant it needs is missing
CallMade(step, env) == step \in DOMAIN NvmlAttr => NvmlAttr[step] \notin env.missing

\* the readings whose NVMLError_NotSupported is caught where it is raised
LocallyGuarded == {"hotspot_temp_celsius", "core_clock_mhz", "memory_clock_mhz", "fan_speed_percent"}

\* the step's call raises to the handlers of the whole try block
Aborts(step, env) ==
    /\ CallMade(step, env)
    /\ env.fail[step] # "ok"
    /\ ~(step \in LocallyGuarded /\ env.fail[step] = "NotSupported")

\* the index of the first step that aborts the block, or one past the last
AbortAt(env) ==
    LET bad == {i \in 1 .. Len(NvmlSteps) : Aborts(NvmlSteps[i], env)}
    IN  IF bad = {} THEN Len(NvmlSteps) + 1
        ELSE CHOOSE i \in bad : \A j \in bad : i <= j

\* what a step that completes stores in its field
StepValue(r, env) ==
    IF ~CallMade(r, env)
    THEN (CASE r = "temp_celsius" -> Str("N/A (NVML_TEMP_GPU not found)")
            [] r = "hotspot_temp_celsius" -> Str("N/A (NVML_TEMP_GPU_MEM not found)")
            [] OTHER -> NotAvailable)
    ELSE IF env.fail[r] = "NotSupported" THEN Str("N/A (Not Supported)")
    ELSE Num(Reading(r))

StepIndex(r) == CHOOSE i \in 1 .. Len(NvmlSteps) : NvmlSteps[i] = r

\* the GPU block after the NVIDIA branch
NvidiaGpu(env) ==
    [r \in Range(GpuReadings) \cup {"hash_rate_mhps", "efficiency_jpmh"} |->
        IF r \in Range(GpuReadings) /\ StepIndex(r) < AbortAt(env)
        THEN StepValue(r, env) ELSE NotAvailable]

\* nvmlShutdown in the finally clause: NVMLError_Uninitialized, raised when
\* nvmlInit did not succeed, is passed over; any other error leaves the method
ShutdownRaises(env) == env.fail["nvmlInit"] = "ok" /\ env.fail["nvmlShutdown"] # "ok"

\* the GPU block after the AMD branch: card.get(field, "N/A")
AmdGpu(env) ==
    [r \in Range(GpuReadings) \cup {"hash_rate_mhps", "efficiency_jpmh"} |->
        IF r \in Range(GpuReadings) /\ env.amd = "card" /\ r \notin env.absent
        THEN Num(Reading(r)) ELSE NotAvailable]

\* the GPU block as initialised
InitialGpu ==
    [r \in Range(GpuReadings) \cup {"hash_rate_mhps", "efficiency_jpmh"} |-> NotAvailable]

GpuBlock(env) ==
    IF NvidiaBranch(env) THEN NvidiaGpu(env)
    ELSE IF AmdBranch(env) THEN AmdGpu(env)
    ELSE InitialGpu

\* the CPU block
CpuBlock(env) ==
    [temperature_celsius |->
        IF env.has_sensors /\ env.sensor \in {"coretemp", "k10temp", "cpu_thermal"}
        THEN Num(45) ELSE NotAvailable,
     usage_percent |-> Num(15)]

RamBlock == [total_gb |-> Num(16), used_gb |-> Num(8), usage_percent |-> Num(50)]

\* an exception leaves get_realtime_metrics: from psutil.virtual_memory in
\* the dict literal, from nvmlShutdown, from psutil.cpu_percent or from
\* psutil.sensors_temperatures, none of which is inside a try block
Raises(env) ==
    \/ env.fail["virtual_memory"] # "ok"
    \/ NvidiaBranch(env) /\ ShutdownRaises(env)
    \/ env.fail["cpu_percent"] # "ok"
    \/ env.has_sensors /\ env.fail["sensors_temperatures"] # "ok"

\* get_realtime_metrics
GetRealtimeMetrics(env, now) ==
    IF Raises(env) THEN [raised |-> TRUE, metrics |-> EmptyDict]
    ELSE [raised |-> FALSE,
          metrics |-> [timestamp |-> now, gpu |-> GpuBlock(env),
                       cpu |-> CpuBlock(env), ram |-> RamBlock]]


----------------------------------------------------------------------------
(* The vendor library.  nvmlInit acquires it and nvmlShutdown releases it;  *)
(* held is the number of acquisitions outstanding.  nvmlShutdown with none  *)
(* outstanding raises NVMLError_Uninitialized, which is the error the       *)
(* finally clauses pass over.                                               *)

MaxHeld == 2

NvmlInit(held, outcome) == IF outcome = "ok" THEN held + 1 ELSE held

NvmlShutdown(held, outcome) ==
    IF held = 0 THEN [held |-> 0, error |-> "Uninitialized"]
    ELSE IF outcome = "ok" THEN [held |-> held - 1, error |-> "none"]
    ELSE [held |-> held, error |-> outcome]

\* faulty variant: nvmlShutdown as the last statement of the try block
ShutdownOnSuccessOnly(aborted) == ~aborted

\* nvmlShutdown is in the finally clause: it is called however the try block ends
ShutdownReached(aborted) == TRUE

\* try: nvmlInit() ... finally: nvmlShutdown(), the block between them ending
\* normally or aborted by an exception its handlers catch
NvmlScope(held, init, shutdown, aborted) ==
    LET h1 == NvmlInit(held, init)
        sd == NvmlShutdown(h1, shutdown)
        reached == ShutdownReached(aborted)
    IN  [held |-> IF reached THEN sd.held ELSE h1,
         acquired |-> init = "ok",
         shutdown_called |-> reached,
         raised |-> reached /\ sd.error \notin {"none", "Uninitialized"}]

\* no vendor call is made: the scope of a call outside the NVIDIA branch, or
\* of one that raised before reaching it
NoScope(held) == [held |-> held, acquired |-> FALSE, shutdown_called |-> FALSE, raised |-> FALSE]

\* the vendor scope of get_realtime_metrics
RealtimeScope(held, env) ==
    IF env.fail["virtual_memory"] # "ok" \/ ~NvidiaBranch(env) THEN NoScope(held)
    ELSE NvmlScope(held, env.fail["nvmlInit"], env.fail["nvmlShutdown"],
                   AbortAt(env) <= Len(NvmlSteps))

\* the calls of the try block of _get_gpu_static_info, in order
StaticSteps ==
    <<"nvmlInit", "nvmlDeviceGetHandleByIndex", "nvmlDeviceGetName",
      "nvmlDeviceGetMemoryInfo", "nvmlSystemGetDriverVersion">>

\* the outcomes of the vendor calls of _get_gpu_static_info: the step that
\* raises (0: none) and the outcome of nvmlShutdown
StaticOk == [at |-> 0, shutdown |-> "ok"]
StaticCases == {[at |-> i, shutdown |-> o] : i \in 0 .. Len(StaticSteps), o \in {"ok", "NVMLError"}}

Unknown == Str("Unknown")

\* the step of the static try block completes
StaticDone(i, sc) == sc.at = 0 \/ i < sc.at

\* info as _get_gpu_static_info fills it
StaticInfo(env, sc) ==
    IF NvidiaBranch(env)
    THEN [model |-> IF StaticDone(3, sc) THEN Str("GPU name") ELSE Unknown,
          vram_total_mb |-> IF StaticDone(4, sc) THEN Num(8192) ELSE Unknown,
          driver_version |-> IF StaticDone(5, sc) THEN Str("driver") ELSE Unknown]
    ELSE IF env.gpu_brand = "AMD" /\ env.os = "Linux" /\ env.amd = "card"
    THEN [model |-> Str("AMD GPU (via amdgpu_top)"), vram_total_mb |-> Num(8192),
          driver_version |-> Str("Check system info (Linux)")]
    ELSE [model |-> Unknown, vram_total_mb |-> Unknown, driver_version |-> Unknown]

\* the vendor scope of _get_gpu_static_info
StaticScope(held, env, sc) ==
    IF ~NvidiaBranch(env) THEN NoScope(held)
    ELSE NvmlScope(held, IF sc.at = 1 THEN "NVMLError" ELSE "ok", sc.shutdown, sc.at # 0)

----------------------------------------------------------------------------
(* SpecMon: a SystemMonitor is constructed, which reads the static GPU      *)
(* information, and get_realtime_metrics is called on it, in any            *)
(* environment.                                                             *)

InitMon ==
    /\ clock = 0
    /\ store = EmptyDict
    /\ log = <<>>
    /\ calls = <<>>
    /\ last = NoCall
    /\ last_save = NoCall
    /\ faults = 0
    /\ mon \in {[op |-> "new", env |-> env, held |-> 0] : env \in Envs}
    /\ pc = [ui |-> "init", poll |-> "init"]
    /\ local = [ui |-> NoLocals, poll |-> NoLocals]
    /\ stop_logging = FALSE
    /\ kb = EmptyDict
    /\ app = AppInit
    /\ config_file = JsonDump(DefaultConfig)

\* SystemMonitor(gpu_brand): __init__ calls _get_gpu_static_info; an error of
\* nvmlShutdown other than NVMLError_Uninitialized leaves the constructor
Construct(sc) ==
    /\ mon.op = "new"
    /\ NvidiaBranch(mon.env) \/ sc = StaticOk
    /\ LET scope == StaticScope(mon.held, mon.env, sc)
       IN  mon' = [op |-> IF scope.raised THEN "failed" ELSE "ready", env |-> mon.env,
                   held |-> scope.held, scope |-> scope, static_case |-> sc,
                   gpu_static_info |-> StaticInfo(mon.env, sc)]
    /\ UNCHANGED <<clock, store, log, calls, last, last_save, faults, pc, local, stop_logging, kb, app, config_file>>

\* get_realtime_metrics() on the constructed monitor
Capture ==
    /\ mon.op \in {"ready", "capture"}
    /\ mon.held < MaxHeld
    /\ LET scope == RealtimeScope(mon.held, mon.env)
       IN  mon' = [op |-> "capture", env |-> mon.env, held |-> scope.held, scope |-> scope,
                   static_case |-> mon.static_case, gpu_static_info |-> mon.gpu_static_info,
                   result |-> GetRealtimeMetrics(mon.env, clock)]
    /\ UNCHANGED <<clock, store, log, calls, last, last_save, faults, pc, local, stop_logging, kb, app, config_file>>

NextMon ==
    \/ \E sc \in StaticCases : Construct(sc)
    \/ Capture

SpecMon == InitMon /\ [][NextMon]_vars

----------------------------------------------------------------------------
(* Claims about get_realtime_metrics (SpecMon) *)

\* exactly the source src fails in the call, and no pynvml constant is missing
OnlyFails(src) ==
    /\ mon.op = "capture"
    /\ Failing(mon.env.fail) = {src}
    /\ mon.env.missing = {}

\* C9: in the NVIDIA branch, when exactly one GPU reading fails or is
\* unsupported, that field alone holds the unavailable marker and every
\* other GPU reading holds its number.
C9_SiblingsUnaffected ==
    \A r \in Range(GpuReadings) :
        (OnlyFails(r) /\ NvidiaBranch(mon.env) /\ ~mon.result.raised) =>
            /\ IsUnavailable(mon.result.metrics.gpu[r])
            /\ \A q \in Range(GpuReadings) \ {r} : IsNumeric(mon.result.metrics.gpu[q])

\* the sources of the sub-readings of a snapshot
SubReadings == Range(GpuReadings) \cup PsutilSources

\* C10: when a single sub-reading fails, whichever it is, the call raises
\* nothing and returns a snapshot with the GPU, CPU and RAM blocks, the
\* failed field holding the unavailable marker.
C10_NeverRaises ==
    \A src \in SubReadings :
        OnlyFails(src) =>
            /\ ~mon.result.raised
            /\ {"gpu", "cpu", "ram"} \subseteq DOMAIN mon.result.metrics
            /\ src \in Range(GpuReadings) /\ NvidiaBranch(mon.env) =>
                   IsUnavailable(mon.result.metrics.gpu[src])
            /\ src = "cpu_percent" => IsUnavailable(mon.result.metrics.cpu["usage_percent"])
            /\ src = "sensors_temperatures" =>
                   IsUnavailable(mon.result.metrics.cpu["temperature_celsius"])
            /\ src = "virtual_memory" => IsUnavailable(mon.result.metrics.ram["used_gb"])

\* C11: when a _get_gpu_static_info or get_realtime_metrics call is over,
\* nvmlShutdown was called if the call's nvmlInit succeeded, on the success
\* path and on every failure path of the readings; and, nvmlShutdown itself
\* working, no acquisition is outstanding.
C11_AcquireRelease ==
    mon.op \in {"ready", "failed", "capture"} =>
        /\ mon.scope.acquired => mon.scope.shutdown_called
        /\ (mon.static_case.shutdown = "ok" /\ mon.env.fail["nvmlShutdown"] = "ok") => mon.held = 0

\* a capture whose nvmlInit succeeded and whose readings aborted, after a
\* static read that aborted too
C11_Witness ==
    /\ mon.op = "capture"
    /\ mon.scope.acquired
    /\ AbortAt(mon.env) <= Len(NvmlSteps)
    /\ mon.static_case.at > 1
    /\ mon.static_case.shutdown = "ok"
    /\ mon.env.fail["nvmlShutdown"] = "ok"
    /\ mon.held = 0

----------------------------------------------------------------------------
(* SpecApp: the threads of GPUOCAdvisorApp that capture and log metrics.    *)
(* The UI thread runs update_live_metrics_display from its timer; the       *)
(* background thread runs _continuous_metric_logging.  The clock stands     *)
(* still here: the order of the threads' steps is what matters, and the     *)
(* timestamps of the entries play no part in it.                            *)

Threads == {"ui", "poll"}

\* the places of a thread that are inside DataManager.log_metrics
InLogMetrics == {"log_entry", "log_write"}

\* the environments the running application meets: the configured NVIDIA
\* platform with every source working, with the power reading unsupported,
\* and with psutil.cpu_percent raising
AppEnvs ==
    {Env(<<"NVIDIA", TRUE, "Linux">>, f, {}, <<TRUE, "coretemp">>, "card", {}) :
        f \in {AllOk, [AllOk EXCEPT !["power_draw_watts"] = "NotSupported"],
               [AllOk EXCEPT !["cpu_percent"] = "raises"]}}

\* where a thread goes when its iteration is over: the UI thread has
\* rescheduled itself with master.after, the polling thread sleeps
AfterIteration(th) == IF th = "ui" THEN "idle" ELSE "sleep"

\* faulty variant: an exception ends the thread's loop
OnExceptionEnds(th) == IF th = "ui" THEN "closed" ELSE "done"

\* where a thread goes from the except clause of its iteration: the handler
\* reports the error and the iteration ends as any other
OnException(th) == AfterIteration(th)

\* faulty variant: the loop condition does not read the flag
LoopContinuesAlways(stop) == TRUE

\* while not self.stop_logging
LoopContinues(stop) == ~stop

\* __init__: _start_metric_logging() clears the flag and starts the thread,
\* then update_live_metrics_display() runs for the first time
AppStart ==
    /\ pc = [ui |-> "init", poll |-> "init"]
    /\ stop_logging' = FALSE
    /\ pc' = [ui |-> "capture", poll |-> "check"]
    /\ UNCHANGED <<clock, store, log, calls, last, last_save, faults, mon, local, kb, app, config_file>>

\* the timer set by master.after fires update_live_metrics_display
UiTimer ==
    /\ pc["ui"] = "idle"
    /\ Len(calls) < MaxLog
    /\ pc' = [pc EXCEPT !["ui"] = "capture"]
    /\ UNCHANGED <<clock, store, log, calls, last, last_save, faults, mon, local, stop_logging, kb, app, config_file>>

\* the loop condition of _continuous_metric_logging is evaluated
PollCheck ==
    /\ pc["poll"] = "check"
    /\ LoopContinues(stop_logging) => Len(calls) < MaxLog
    /\ pc' = [pc EXCEPT !["poll"] = IF LoopContinues(stop_logging) THEN "capture" ELSE "done"]
    /\ UNCHANGED <<clock, store, log, calls, last, last_save, faults, mon, local, stop_logging, kb, app, config_file>>

\* get_realtime_metrics(); an exception goes to the except clause of the
\* caller, which skips log_metrics.  The UI thread assigns the snapshot to
\* self.current_metrics, the polling thread to a local variable.
CaptureStep(th, env) ==
    /\ pc[th] = "capture"
    /\ LET result == GetRealtimeMetrics(env, clock)
       IN  IF result.raised
           THEN /\ pc' = [pc EXCEPT ![th] = OnException(th)]
                /\ UNCHANGED <<local, app>>
           ELSE /\ pc' = [pc EXCEPT ![th] = "log_entry"]
                /\ local' = [local EXCEPT ![th].metrics = result.metrics]
                /\ app' = IF th = "ui"
                          THEN [app EXCEPT !.current_metrics = result.metrics]
                          ELSE app
    /\ UNCHANGED <<clock, store, log, calls, last, last_save, faults, mon, stop_logging, kb, config_file>>

\* log_metrics(metrics): the entry is built and serialized
LogEntryStep(th) ==
    /\ pc[th] = "log_entry"
    /\ local' = [local EXCEPT
                   ![th].pending = WriteOps(LogLine(LogEntry(clock, local[th].metrics, NoDict)))]
    /\ pc' = [pc EXCEPT ![th] = "log_write"]
    /\ UNCHANGED <<clock, store, log, calls, last, last_save, faults, mon, stop_logging, kb, app, config_file>>

\* log_metrics: one write operation on the file opened for appending; a
\* failure raises into the except clause of log_metrics, which prints it
LogWriteStep(th, io) ==
    /\ pc[th] = "log_write"
    /\ CanFail(io)
    /\ faults' = Failed(io)
    /\ log' = LogAppend(log, Head(local[th].pending), io)
    /\ IF io = "ok" /\ Len(local[th].pending) > 1
       THEN /\ local' = [local EXCEPT ![th].pending = Tail(local[th].pending)]
            /\ UNCHANGED <<pc, calls>>
       ELSE /\ local' = [local EXCEPT ![th] = NoLocals]
            /\ calls' = Append(calls, [th |-> th, metrics |-> local[th].metrics, io |-> io])
            /\ pc' = [pc EXCEPT ![th] = AfterIteration(th)]
    /\ UNCHANGED <<clock, store, last, last_save, mon, stop_logging, kb, app, config_file>>

\* time.sleep(interval) is over
PollSleep ==
    /\ pc["poll"] = "sleep"
    /\ pc' = [pc EXCEPT !["poll"] = "check"]
    /\ UNCHANGED <<clock, store, log, calls, last, last_save, faults, mon, local, stop_logging, kb, app, config_file>>

\* _on_closing, confirmed by the user: the flag is set, the window destroyed.
\* last keeps where the polling thread and the log were at that moment.
Close ==
    /\ pc["ui"] = "idle"
    /\ stop_logging' = TRUE
    /\ pc' = [pc EXCEPT !["ui"] = "closed"]
    /\ last' = [op |-> "close", poll |-> pc["poll"], calls |-> Len(calls)]
    /\ UNCHANGED <<clock, store, log, calls, last_save, faults, mon, local, kb, app, config_file>>

NextApp ==
    \/ AppStart
    \/ UiTimer
    \/ PollCheck
    \/ \E th \in Threads, env \in AppEnvs : CaptureStep(th, env)
    \/ \E th \in Threads : LogEntryStep(th)
    \/ \E th \in Threads, io \in {"ok", "open_fails"} : LogWriteStep(th, io)
    \/ PollSleep
    \/ Close

SpecApp == Init /\ [][NextApp]_vars

----------------------------------------------------------------------------
(* Claims about the threads (SpecApp) *)

\* C7: the polling thread is the only caller of log_metrics: the UI thread is
\* never inside log_metrics, so the two threads are never inside it together.
C7_SoleWriter ==
    /\ pc["ui"] \notin InLogMetrics
    /\ ~(pc["ui"] \in InLogMetrics /\ pc["poll"] \in InLogMetrics)

\* C8: whatever the interleaving of the two callers, and whenever a reader
\* looks, the log holds complete lines only, one for each log_metrics call
\* that wrote and none for a call that failed: no partial line, no line
\* mixing two entries.
C8_WholeLines ==
    /\ log # <<>> => log[Len(log)] = NL
    /\ Len(Lines(log)) = Len(Written)
    /\ \A i \in 1 .. Len(Lines(log)) :
          /\ IsEntryLine(Lines(log)[i])
          /\ i <= Len(Written) => EntryOf(Lines(log)[i])["metrics"] = Written[i].metrics

\* both threads are about to write, after a line was written and a call failed
C8_Witness ==
    /\ pc["ui"] = "log_write"
    /\ pc["poll"] = "log_write"
    /\ Len(Lines(log)) >= 1
    /\ Len(Written) < Len(calls)

\* the log_metrics calls the polling thread completed since the flag was set
PollCallsSinceStop ==
    {i \in last.calls + 1 .. Len(calls) : calls[i].th = "poll"}

\* a step of the polling thread with the flag set: it starts no iteration, and
\* at the flag check it terminates
C14_NoNewIteration ==
    stop_logging =>
        /\ pc["poll"] = "check" /\ pc'["poll"] # "check" => pc'["poll"] = "done"
        /\ pc'["poll"] = "capture" => pc["poll"] = "capture"
        /\ pc["poll"] = "done" => pc'["poll"] = "done"

\* C14: once stop_logging is set, the polling thread completes at most one
\* more log_metrics call, and none unless it was inside an iteration at that
\* moment; at its next flag check it terminates and starts no new iteration.
C14_StopFlag ==
    /\ [](stop_logging =>
            /\ Cardinality(PollCallsSinceStop) <= 1
            /\ PollCallsSinceStop # {} => last.poll \in {"capture", "log_entry", "log_write"})
    /\ [][C14_NoNewIteration]_vars

\* the flag was set while the polling thread was capturing; it has appended
\* one more entry and has terminated
C14_Witness ==
    /\ stop_logging
    /\ last.poll = "capture"
    /\ Cardinality(PollCallsSinceStop) = 1
    /\ pc["poll"] = "done"

\* a step of the polling thread in which its capture or its append fails: the
\* thread goes on to the sleep that ends the iteration, and the log is as before
C15_FailureStep ==
    /\ pc["poll"] = "capture" /\ pc'["poll"] \notin {"capture", "log_entry"} =>
           pc'["poll"] = "sleep" /\ log' = log
    /\ (/\ pc["poll"] = "log_write" /\ pc'["poll"] # "log_write"
        /\ calls'[Len(calls')].io # "ok") =>
           pc'["poll"] = "sleep" /\ log' = log
    /\ pc["poll"] = "sleep" /\ pc'["poll"] # "sleep" => pc'["poll"] = "check"
    /\ pc["poll"] = "check" /\ pc'["poll"] # "check" /\ ~stop_logging => pc'["poll"] = "capture"

\* C15: a failed capture or a failed append never ends the polling loop: the
\* thread terminates only with the stop flag set, a failure leads to the next
\* flag check, which starts a new iteration, and a failed append leaves the
\* log unchanged.
C15_LoopSurvives ==
    /\ [](pc["poll"] = "done" => stop_logging)
    /\ [][C15_FailureStep]_vars

\* after a failed append and with the flag clear, the polling thread is in a
\* later iteration
C15_Witness ==
    /\ ~stop_logging
    /\ \E i \in 1 .. Len(calls) : calls[i].th = "poll" /\ calls[i].io # "ok"
    /\ pc["poll"] = "log_entry"
    /\ Len(Lines(log)) >= 1

----------------------------------------------------------------------------
(* SpecCfg: the start of GPUOCAdvisorApp.__init__: the configuration is     *)
(* loaded from config.json and the backend components are built from it.    *)

\* the options the application reads
ConfigOptions == DOMAIN DefaultConfig

\* values a user has put into config.json
UserConfig ==
    [llm_model_name |-> "mistral", ollama_base_url |-> "http://localhost:11435",
     gpu_brand |-> "AMD", target_temperature_celsius |-> 65, priority |-> "hashrate",
     data_collection_interval_seconds |-> 5, app_data_dir |-> "data"]

Absent == [exists |-> FALSE]

\* a text json.load rejects
Unparseable == [closed |-> FALSE, members |-> <<>>]

\* config.json before the application starts: absent, unparseable, or a JSON
\* object holding some of the options
ConfigFiles ==
    {Absent, Unparseable} \cup
    {JsonDump([k \in ks |-> UserConfig[k]]) : ks \in SUBSET ConfigOptions}

FileExists(f) == f # Absent

\* _load_config: the dict returned
LoadConfig(f) ==
    IF ~FileExists(f) THEN DefaultConfig
    ELSE IF JsonValid(f) THEN JsonLoad(f)
    ELSE EmptyDict

\* _load_config: config.json after the call
ConfigFileAfter(f) == IF ~FileExists(f) THEN JsonDump(DefaultConfig) ELSE f

\* the options __init__ reads with self.config[...] while building the backend
BackendOptions == <<"gpu_brand", "app_data_dir">>

InitCfg ==
    /\ clock = 0
    /\ store = EmptyDict
    /\ log = <<>>
    /\ calls = <<>>
    /\ last = NoCall
    /\ last_save = NoCall
    /\ faults = 0
    /\ mon = NoCall
    /\ pc = [ui |-> "init", poll |-> "init"]
    /\ local = [ui |-> NoLocals, poll |-> NoLocals]
    /\ stop_logging = FALSE
    /\ kb = EmptyDict
    /\ app = [op |-> "new"]
    /\ config_file \in ConfigFiles

\* self.config = self._load_config(config_file)
LoadConfigStep ==
    /\ app.op = "new"
    /\ app' = [op |-> "configured", config |-> LoadConfig(config_file)]
    /\ config_file' = ConfigFileAfter(config_file)
    /\ last' = [op |-> "load_config", file |-> config_file]
    /\ UNCHANGED <<clock, store, log, calls, last_save, faults, mon, pc, local, stop_logging, kb>>

\* SystemMonitor(self.config["gpu_brand"]), LLMInterface(self.config),
\* DataManager(self.config["app_data_dir"]): a missing key raises KeyError
InitBackend ==
    /\ app.op = "configured"
    /\ LET missing == SelectSeq(BackendOptions, LAMBDA k : k \notin DOMAIN app.config)
       IN  app' = IF missing = <<>>
                  THEN [op |-> "backend", config |-> app.config,
                        gpu_brand |-> app.config["gpu_brand"],
                        app_data_dir |-> app.config["app_data_dir"]]
                  ELSE [op |-> "KeyError", config |-> app.config, key |-> missing[1]]
    /\ UNCHANGED <<clock, store, log, calls, last, last_save, faults, mon, pc, local,
                   stop_logging, kb, config_file>>

NextCfg ==
    \/ LoadConfigStep
    \/ InitBackend

SpecCfg == InitCfg /\ [][NextCfg]_vars

\* C20: after _load_config every recognized option has a value, the one of
\* the file where the file gives one and the default otherwise, whether the
\* file is missing, parses or does not parse; and the file is written, with
\* the defaults, only when it did not exist.
C20_DefaultsApplied ==
    app.op = "configured" =>
        /\ \A k \in ConfigOptions :
              /\ k \in DOMAIN app.config
              /\ app.config[k] =
                     IF FileExists(last.file) /\ JsonValid(last.file)
                        /\ k \in DOMAIN JsonLoad(last.file)
                     THEN JsonLoad(last.file)[k] ELSE DefaultConfig[k]
        /\ config_file = IF FileExists(last.file) THEN last.file ELSE JsonDump(DefaultConfig)

----------------------------------------------------------------------------
(* LLMInterface.  ollama.generate answers with a dict, or raises; the       *)
(* outcome is what the server did.                                          *)

\* the server generated a text, answered without a 'response' member,
\* answered 404 naming the model, refused the connection
LlmOutcomes == {"generated", "no_response_member", "status_404", "refused"}

\* ollama.generate raises
GenerateRaises(outcome) == outcome \in {"status_404", "refused"}

\* faulty variant: the handler catches connection errors only
CaughtConnectionOnly(outcome) == outcome = "refused"

\* except Exception: every error ollama.generate raises is caught
Caught(outcome) == TRUE

\* get_overclock_recommendations: the string returned, or the exception
\* that leaves it
GetOverclockRecommendations(outcome) ==
    IF ~GenerateRaises(outcome)
    THEN [raised |-> FALSE,
          text |-> IF outcome = "generated" THEN "Core Clock: +100MHz"
                   ELSE "LLM did not return a valid response."]
    ELSE IF Caught(outcome)
    THEN [raised |-> FALSE,
          text |-> IF outcome = "status_404"
                   THEN "Error: Could not get recommendations from LLM. Please ensure the model is downloaded."
                   ELSE "Error: Could not get recommendations from LLM. Please ensure your Ollama server is running."]
    ELSE [raised |-> TRUE, text |-> ""]

----------------------------------------------------------------------------
(* SpecReq: the event handlers of GPUOCAdvisorApp that ask for a            *)
(* recommendation and that update the status of one, and the threads that   *)
(* call the model.  All handlers run on the UI thread, one at a time; a     *)
(* handler runs when the UI thread is idle.  The metrics refresh and the    *)
(* polling thread are left to SpecApp: they touch neither the documents nor *)
(* the widgets of these handlers.                                           *)

\* the handlers that write a document run while the clock is below this
MaxUiClock == 3

\* what the user may have typed in the algorithm and the goal entries
AlgorithmTexts == {"Ethash", ""}
GoalTexts == {"Maximize efficiency", ""}

\* the text of the identifier entry, stripped: empty, or an identifier
IdTexts == {<<>>} \cup {<<i>> : i \in Ids \cup {ERROR}}

\* the texts of the hash rate and of the power entries, stripped
FigureTexts == {"", "60", "fast"}

\* float(text): ValueError for a text that is no number
Float(text) ==
    IF text = "60" THEN [ok |-> TRUE, val |-> Num(60)] ELSE [ok |-> FALSE, val |-> Num(0)]

\* a mapping has the key
HasKey(d, k) == k \in DOMAIN d

\* apply_update: actual_metrics as built from the two entries
EnteredMetrics(actual_hash_rate, actual_power) ==
    LET m1 == IF actual_hash_rate # "" /\ Float(actual_hash_rate).ok
              THEN [gpu |-> [hash_rate_mhps |-> Float(actual_hash_rate).val]]
              ELSE EmptyDict
    IN  IF actual_power # "" /\ Float(actual_power).ok
        THEN DictSet(m1, "gpu",
                     DictSet(IF HasKey(m1, "gpu") THEN m1["gpu"] ELSE EmptyDict,
                             "power_draw_watts", Float(actual_power).val))
        ELSE m1

\* apply_update: the live GPU block is read when a figure was entered
ReadsLive(actual_metrics) == DOMAIN actual_metrics # {} /\ HasKey(actual_metrics, "gpu")

\* apply_update: actual_metrics["gpu"].update(current_metrics_snapshot)
MergedMetrics(actual_metrics, live) ==
    IF ReadsLive(actual_metrics)
    THEN DictSet(actual_metrics, "gpu", DictUpdate(actual_metrics["gpu"], live["gpu"]))
    ELSE actual_metrics

\* the keys get_system_summary_string indexes in the snapshot
SummaryRaises(realtime_metrics) == ~({"gpu", "cpu", "ram"} \subseteq DOMAIN realtime_metrics)

\* the boxes the handlers show
InputErrorBox == [given |-> TRUE, kind |-> "showerror", title |-> "Input Error"]
StatusUpdatedBox == [given |-> TRUE, kind |-> "showinfo", title |-> "Status Updated"]

\* the environments the captures of the handlers and of the threads beside
\* them meet: every source working, and psutil.cpu_percent raising
LiveEnvs ==
    {Env(<<"NVIDIA", TRUE, "Linux">>, f, {}, <<TRUE, "coretemp">>, "card", {}) :
        f \in {AllOk, [AllOk EXCEPT !["cpu_percent"] = "raises"]}}

\* the state when __init__ has returned: the polling thread is started and
\* update_live_metrics_display has run once, in the environment env
AfterInit(env) ==
    LET result == GetRealtimeMetrics(env, 0)
        line == LogLine(LogEntry(0, result.metrics, NoDict))
    IN  /\ clock = 0
        /\ store = EmptyDict
        /\ log = IF result.raised THEN <<>> ELSE LogAppend(<<>>, line, "ok")
        /\ calls = IF result.raised THEN <<>>
                   ELSE <<[th |-> "ui", metrics |-> result.metrics, io |-> "ok"]>>
        /\ last = NoCall
        /\ last_save = NoCall
        /\ faults = 0
        /\ mon = NoCall
        /\ pc = [ui |-> "idle", poll |-> "check"]
        /\ local = [ui |-> NoLocals, poll |-> NoLocals]
        /\ stop_logging = FALSE
        /\ kb = EmptyDict
        /\ app = [AppInit EXCEPT !.current_metrics = result.metrics]
        /\ config_file = JsonDump(DefaultConfig)

InitReq == \E env \in LiveEnvs : AfterInit(env)

\* faulty variant: the handler joins the thread it started
AfterThreadJoined == "join"

\* threading.Thread(...).start() returns at once and the handler is over:
\* the UI thread is back in its event loop
AfterThreadStarted == "idle"

\* faulty variant: the button is left as it was while the text is generated
LeftEnabled == "normal"

\* get_rec_button.config(state='disabled'), the first thing the handler does
\* to the button
DuringGeneration == "disabled"

\* _get_new_recommendation_threaded: the button is pressed.  A disabled
\* button takes no press.  An exception of get_system_summary_string leaves
\* the handler after the button was disabled.  last keeps how many entries
\* the log had been given at that moment.
GetNewRecommendationThreaded(algorithm, goal) ==
    /\ pc["ui"] = "idle"
    /\ app.get_rec_button = "normal"
    /\ LET used_goal == IF goal = "" THEN DefaultConfig.priority ELSE goal
           current_metrics_snapshot == app.current_metrics
           generating == [app EXCEPT !.status_bar = "Generating recommendation...",
                                     !.get_rec_button = DuringGeneration,
                                     !.messagebox = None]
       IN  /\ app' =
                 IF algorithm = ""
                 THEN [app EXCEPT !.messagebox = InputErrorBox,
                                  !.get_rec_button = "normal",
                                  !.status_bar = "Ready."]
                 ELSE IF SummaryRaises(current_metrics_snapshot)
                 THEN generating
                 ELSE [generating EXCEPT
                         !.workers = Append(@, [metrics_at_rec |-> current_metrics_snapshot,
                                                algorithm |-> algorithm,
                                                goal |-> used_goal])]
           /\ pc' = IF algorithm = "" \/ SummaryRaises(current_metrics_snapshot)
                    THEN pc ELSE [pc EXCEPT !["ui"] = AfterThreadStarted]
           /\ last' = [op |-> "get_new_recommendation", calls |-> Len(calls),
                       raised |-> algorithm # "" /\ SummaryRaises(current_metrics_snapshot)]
    /\ UNCHANGED <<clock, store, log, calls, last_save, faults, mon, local, stop_logging, kb, config_file>>

\* a sequence without its i-th element
Without(s, i) == SubSeq(s, 1, i - 1) \o SubSeq(s, i + 1, Len(s))

\* faulty variant: the snapshot saved is the one the UI holds when the text
\* is displayed
SnapshotAtDisplay(a, c) == a.current_metrics

\* the snapshot _display_recommendation passes to save_recommendation: its
\* argument metrics_at_rec
SavedSnapshot(a, c) == c.metrics_at_rec

\* _display_recommendation(text, metrics_at_rec, algorithm, goal), the
\* arguments in c, a the widgets and attributes as the caller leaves them:
\* the text is shown, the record saved, its identifier kept, the button
\* enabled again
DisplayRecommendation(a, c, io) ==
    /\ clock < MaxUiClock
    /\ CanFail(io)
    /\ faults' = Failed(io)
    /\ LET rec_id == RecId(clock)
           rec_data == RecData(rec_id, clock, c.goal, c.algorithm,
                               SavedSnapshot(a, c), c.llm_recommendation_text)
           ret == SaveResult(rec_id, io)
       IN  /\ store' = SaveStore(store, rec_id, rec_data, io)
           /\ app' = [a EXCEPT
                        !.llm_output_display = c.llm_recommendation_text,
                        !.current_recommendation_id = [given |-> TRUE, val |-> ret],
                        !.status_bar = "Recommendation generated and saved.",
                        !.get_rec_button = "normal"]
           /\ last' = [op |-> "display_recommendation", io |-> io, ret |-> ret,
                       refreshed |-> a.current_metrics # c.metrics_at_rec]
           /\ last_save' = [op |-> "save", t |-> clock, ret |-> ret,
                            text |-> c.llm_recommendation_text]
    /\ clock' = clock + 1

\* faulty variant: the thread calls _display_recommendation itself
CalledDirectly == FALSE

\* self.master.after(0, self._display_recommendation, ...): the callback is
\* left to the event loop of the UI thread
ViaEventLoop == TRUE

\* _fetch_recommendation_task: the call of the model is over and the thread
\* hands the text to the UI thread with master.after(0, ...), then ends.
\* The thread is a daemon: it is gone with the process once the window is
\* destroyed.
FetchRecommendationTask(i, outcome) ==
    /\ pc["ui"] # "closed"
    /\ i \in 1 .. Len(app.workers)
    /\ LET w == app.workers[i]
           result == GetOverclockRecommendations(outcome)
           display == [cb |-> "_display_recommendation", llm_recommendation_text |-> result.text,
                       metrics_at_rec |-> w.metrics_at_rec, algorithm |-> w.algorithm,
                       goal |-> w.goal]
           callbacks ==
               IF result.raised
               THEN <<[cb |-> "update_status", message |-> "Error getting LLM recommendation"],
                      [cb |-> "get_rec_button.config", state |-> "normal"]>>
               ELSE <<display>>
           over == [app EXCEPT !.workers = Without(@, i)]
       IN  IF ViaEventLoop \/ result.raised
           THEN /\ app' = [over EXCEPT !.queue = @ \o callbacks]
                /\ last' = [op |-> "fetch_recommendation", outcome |-> outcome]
                /\ UNCHANGED <<clock, store, last_save, faults>>
           ELSE DisplayRecommendation(over, display, "ok")
    /\ UNCHANGED <<log, calls, mon, pc, local, stop_logging, kb, config_file>>

\* the event loop runs the callback at the head of the queue
RunCallback(io) ==
    /\ pc["ui"] = "idle"
    /\ app.queue # <<>>
    /\ LET c == Head(app.queue)
           rest == [app EXCEPT !.queue = Tail(@), !.messagebox = None]
       IN  CASE c.cb = "_display_recommendation" ->
                  DisplayRecommendation(rest, c, io)
             [] c.cb = "update_status" ->
                  /\ io = "ok"
                  /\ app' = [rest EXCEPT !.status_bar = c.message]
                  /\ last' = [op |-> "update_status"]
                  /\ UNCHANGED <<clock, store, last_save, faults>>
             [] c.cb = "get_rec_button.config" ->
                  /\ io = "ok"
                  /\ app' = [rest EXCEPT !.get_rec_button = c.state]
                  /\ last' = [op |-> "get_rec_button.config"]
                  /\ UNCHANGED <<clock, store, last_save, faults>>
    /\ UNCHANGED <<log, calls, mon, pc, local, stop_logging, kb, config_file>>

\* what get_realtime_metrics() returns to the dialog in the environments of
\* the running application; the dialog takes the GPU block only
LiveCaptures == {GetRealtimeMetrics(env, 0) : env \in LiveEnvs}

\* apply_update of the update dialog: the button "Update Status" is pressed
\* with the entries as given; live is what the capture returns, io how the
\* file operation of the store goes
ApplyUpdate(rec_id, new_status, actual_hash_rate, actual_power, notes, live, io) ==
    /\ pc["ui"] = "idle"
    /\ clock < MaxUiClock
    /\ CanFail(io)
    /\ LET entered == EnteredMetrics(actual_hash_rate, actual_power)
           raised == ReadsLive(entered) /\ live.raised
           actual_metrics == IF raised THEN entered ELSE MergedMetrics(entered, live.metrics)
           call == [op |-> "apply_update", rec_id |-> rec_id, io |-> io,
                    raised |-> raised, entered |-> entered,
                    existed |-> rec_id # <<>> /\ Exists(store, rec_id[1]),
                    changed |-> store' # store]
       IN  IF raised \/ rec_id = <<>>
           THEN /\ io = "ok"
                /\ app' = [app EXCEPT !.messagebox = IF raised THEN None ELSE InputErrorBox]
                /\ UNCHANGED <<clock, store, faults>>
                /\ last' = call
           ELSE /\ Exists(store, rec_id[1]) \/ io = "ok"
                /\ store' = UpdateStore(store, rec_id[1], new_status,
                                        SomeDict(actual_metrics), notes, clock, io)
                /\ faults' = Failed(io)
                /\ clock' = IF Exists(store, rec_id[1]) THEN clock + 1 ELSE clock
                /\ app' = [app EXCEPT !.messagebox = StatusUpdatedBox,
                                      !.status_bar = "Recommendation status changed."]
                /\ last' = call
    /\ UNCHANGED <<log, calls, last_save, mon, pc, local, stop_logging, kb, config_file>>

\* what the user may have entered in the update dialog:
\* <<status, hash rate, power, notes>>
DialogEntries ==
    {<<"APPLIED", "60", "60", "">>,
     <<"FAILED", "fast", "", "crashed">>}

NextReq ==
    \/ \E algorithm \in AlgorithmTexts, goal \in GoalTexts :
          GetNewRecommendationThreaded(algorithm, goal)
    \/ \E i \in 1 .. 2, outcome \in LlmOutcomes : FetchRecommendationTask(i, outcome)
    \/ \E io \in IOOutcomes : RunCallback(io)
    \/ \E rec_id \in IdTexts, e \in DialogEntries, live \in LiveCaptures, io \in {"ok", "open_fails"} :
          ApplyUpdate(rec_id, e[1], e[2], e[3], e[4], live, io)
    \/ Close

SpecReq == InitReq /\ [][NextReq]_vars

\* the model call of some worker thread returns or fails
ModelCallEnds ==
    \E i \in 1 .. 2, outcome \in LlmOutcomes : FetchRecommendationTask(i, outcome)

\* the event loop of the UI thread runs what master.after(0, ...) queued
EventLoop == \E io \in IOOutcomes : RunCallback(io)

\* SpecReq where every model call ends and the event loop keeps running;
\* nothing is assumed about what the user does
SpecReqFair ==
    InitReq /\ [][NextReq]_vars /\ WF_vars(ModelCallEnds) /\ WF_vars(EventLoop)

----------------------------------------------------------------------------
(* SpecLive: the request for a recommendation next to the metrics refresh   *)
(* of the UI thread and the polling thread.  A thread that can take a step  *)
(* eventually takes it; nothing is assumed about when, or whether, a call   *)
(* of the model returns, nor about what the user does.                      *)

\* the display callbacks run while the clock is below this
MaxLiveClock == 1

\* the steps of the polling thread
PollThread ==
    \/ PollCheck
    \/ \E env \in LiveEnvs : CaptureStep("poll", env)
    \/ LogEntryStep("poll")
    \/ LogWriteStep("poll", "ok")
    \/ PollSleep

\* the steps of the UI thread inside update_live_metrics_display
UiThread ==
    \/ \E env \in LiveEnvs : CaptureStep("ui", env)
    \/ LogEntryStep("ui")
    \/ LogWriteStep("ui", "ok")

NextLive ==
    \/ AppStart
    \/ UiTimer
    \/ PollThread
    \/ UiThread
    \/ Close
    \/ GetNewRecommendationThreaded("Ethash", "")
    \/ \E i \in 1 .. 2, outcome \in {"generated", "refused"} : FetchRecommendationTask(i, outcome)
    \/ clock < MaxLiveClock /\ RunCallback("ok")
    \/ /\ clock <= MaxLiveClock
       /\ Exists(store, RecId(0))
       /\ \E live \in LiveCaptures :
             ApplyUpdate(<<RecId(0)>>, "FAILED", "", "", "crashed", live, "ok")

SpecLive == Init /\ [][NextLive]_vars /\ WF_vars(PollThread) /\ WF_vars(UiThread)

----------------------------------------------------------------------------
(* SpecSnap: one request for a recommendation while the refresh of the UI   *)
(* thread captures snapshots that differ from one another, next to the      *)
(* polling thread.                                                           *)

\* the steps of the UI thread inside update_live_metrics_display, the power
\* reading being supported in some captures and unsupported in others
RefreshThread ==
    \/ \E env \in AppEnvs : CaptureStep("ui", env)
    \/ LogEntryStep("ui")
    \/ LogWriteStep("ui", "ok")

NextSnap ==
    \/ AppStart
    \/ UiTimer
    \/ PollThread
    \/ RefreshThread
    \/ GetNewRecommendationThreaded("Ethash", "")
    \/ \E i \in 1 .. 2 : FetchRecommendationTask(i, "generated")
    \/ clock < MaxLiveClock /\ RunCallback("ok")

SpecSnap == Init /\ [][NextSnap]_vars

----------------------------------------------------------------------------
(* Claims about the request and the update handlers (SpecReq) *)

\* C16: when apply_update has run for an identifier typed in the dialog that
\* has no stored record, the box shown is an error box; and whenever
\* apply_update has run, the box "Status Updated" is shown exactly when the
\* store changed the record.
C16_OutcomeShown ==
    last.op = "apply_update" =>
        /\ (last.rec_id # <<>> /\ ~last.existed /\ ~last.raised) =>
               (app.messagebox.given /\ app.messagebox.kind = "showerror")
        /\ (app.messagebox = StatusUpdatedBox) <=> last.changed

\* the strings get_overclock_recommendations builds in its except clause
DiagnosticTexts ==
    {"Error: Could not get recommendations from LLM. Please ensure the model is downloaded.",
     "Error: Could not get recommendations from LLM. Please ensure your Ollama server is running."}

\* the step is the return of a model call to its _fetch_recommendation_task
ReturnedStep == last'.op = "fetch_recommendation"

\* the step is a run of _display_recommendation whose save wrote its document
DisplayedStep == last'.op = "display_recommendation" /\ last'.io = "ok"

\* C12: whenever a model call ends, get_overclock_recommendations has
\* returned a string without raising, the generated text when the model
\* generated one and a diagnostic message when the call failed, and the
\* thread has queued _display_recommendation with that string; and whenever
\* _display_recommendation runs and the file operation of the save works,
\* the record stored under the identifier returned has the queued string as
\* its text and the status PENDING_USER_APPLY.
C12_RequestStep ==
    /\ ReturnedStep =>
          LET r == GetOverclockRecommendations(last'.outcome)
              queued == app'.queue[Len(app'.queue)]
          IN  /\ ~r.raised
              /\ last'.outcome = "generated" => r.text = "Core Clock: +100MHz"
              /\ GenerateRaises(last'.outcome) => r.text \in DiagnosticTexts
              /\ Len(app'.queue) = Len(app.queue) + 1
              /\ queued.cb = "_display_recommendation"
              /\ queued.llm_recommendation_text = r.text
    /\ DisplayedStep =>
          /\ last'.ret = RecId(clock)
          /\ app'.current_recommendation_id = [given |-> TRUE, val |-> last'.ret]
          /\ Exists(store', last'.ret) /\ JsonValid(store'[last'.ret])
          /\ LET rec == JsonLoad(store'[last'.ret])
             IN  /\ rec["llm_recommendation_text"] = Head(app.queue).llm_recommendation_text
                 /\ rec["applied_status"] = "PENDING_USER_APPLY"

C12_AlwaysARecord == [][C12_RequestStep]_vars

\* a request whose model call was refused has just been displayed, and the
\* record saved holds the diagnostic message with the status pending
C12_Witness ==
    /\ last.op = "display_recommendation"
    /\ last.io = "ok"
    /\ app.llm_output_display \in DiagnosticTexts
    /\ Exists(store, last.ret) /\ JsonValid(store[last.ret])
    /\ JsonLoad(store[last.ret])["llm_recommendation_text"] = app.llm_output_display
    /\ JsonLoad(store[last.ret])["applied_status"] = "PENDING_USER_APPLY"

----------------------------------------------------------------------------
(* Claims about the threads while the model is called (SpecLive) *)

\* a call of the model is in flight
InFlight == app.workers # <<>>

\* C13: while a call of the model is in flight, however long, an iteration
\* the polling thread has begun comes to its end with the sleep, and the UI
\* thread, whatever handler it is in, comes back to its event loop: neither
\* needs the call to return.
C13_NeverWaiting ==
    /\ (InFlight /\ pc["poll"] \in {"capture", "log_entry", "log_write"}) ~> (pc["poll"] = "sleep")
    /\ (InFlight /\ pc["ui"] # "closed") ~> (pc["ui"] \in {"idle", "closed"})

\* a call of the model is in flight, and since it was started both the
\* polling thread and the UI thread have appended an entry to the log
C13_Witness ==
    /\ InFlight
    /\ last.op = "get_new_recommendation"
    /\ \E i, j \in (last.calls + 1) .. Len(calls) : calls[i].th = "poll" /\ calls[j].th = "ui"

----------------------------------------------------------------------------
(* Claims about documents that cannot be parsed (Spec) *)

\* the identifiers whose document json.load accepts
Parseable(s) == {rec_id \in DOMAIN s : JsonValid(s[rec_id])}

UpdateOfUnparseableStep ==
    /\ last'.op = "update"
    /\ last'.t = clock
    /\ Exists(store, last'.rec_id)
    /\ ~JsonValid(store[last'.rec_id])

\* C30: update_recommendation_status for an identifier whose document exists
\* and cannot be parsed ends in its except clause, leaves every document as
\* it was, and load_recommendation of the identifier returns None before the
\* call as after it.
C30_UnparseableStep ==
    UpdateOfUnparseableStep =>
        /\ last'.outcome = "error"
        /\ store' = store
        /\ \A io \in {"ok", "open_fails"} :
              /\ LoadRecommendation(store, last'.rec_id, io) = NoDict
              /\ LoadRecommendation(store', last'.rec_id, io) = NoDict

C30_UnparseableUntouched == [][C30_UnparseableStep]_vars

\* an update whose file operations worked has just been called for a
\* document that a failed write had torn, and the torn text is still there
C30_Witness ==
    /\ last.op = "update"
    /\ last.io = "ok"
    /\ last.outcome = "error"
    /\ Exists(store, last.rec_id)
    /\ store[last.rec_id] = Torn(store[last.rec_id])
    /\ Len(store[last.rec_id].members) = 1

----------------------------------------------------------------------------
(* Claims about what an update leaves alone (Spec) *)

\* the keys of rec_data that an update does not assign
CreationKeys ==
    {"id", "timestamp", "user_goal", "mining_algorithm",
     "system_snapshot_at_recommendation", "llm_recommendation_text"}

\* the keys an update assigns
UpdateKeys == {"applied_status", "actual_performance_after_apply", "user_notes", "last_updated"}

C28_FrameStep ==
    UpdatedStep =>
        LET old == JsonLoad(store[last'.rec_id])
            new == JsonLoad(store'[last'.rec_id])
        IN  /\ \A k \in CreationKeys : Field(new, k) = Field(old, k)
            /\ DOMAIN new \subseteq DOMAIN old \cup UpdateKeys
            /\ DOMAIN store' = DOMAIN store
            /\ \A other \in DOMAIN store \ {last'.rec_id} : store'[other] = store[other]

C28_IdIsFileName ==
    \A rec_id \in Parseable(store) : Field(JsonLoad(store[rec_id]), "id") = <<"set", rec_id>>

\* C28: a successful update leaves the id, the creation timestamp, the goal,
\* the algorithm, the snapshot and the recommendation text of its record as
\* they were, adds no key but user_notes and last_updated, and leaves every
\* other document as it was; and the id member of every document that can be
\* parsed is the identifier in its file name.
C28_UpdateFrame == []C28_IdIsFileName /\ [][C28_FrameStep]_vars

\* a record with notes was updated while an older record is in the store,
\* untouched since its creation
C28_Witness ==
    /\ last.op = "update"
    /\ last.outcome = "updated"
    /\ "user_notes" \in DOMAIN JsonLoad(store[last.rec_id])
    /\ \E other \in Parseable(store) \ {last.rec_id} :
          /\ other < last.rec_id
          /\ StatusOf(store, other) = "PENDING_USER_APPLY"

----------------------------------------------------------------------------
(* Claims about platforms without GPU support (SpecMon) *)

\* the monitor reads no GPU on the platform: it is neither NVIDIA with the
\* vendor library nor AMD on Linux
Unsupported(env) ==
    /\ ~(env.gpu_brand = "NVIDIA" /\ env.nvml_available)
    /\ ~(env.gpu_brand = "AMD" /\ env.os = "Linux")

\* C22: on a platform without GPU support, with the psutil sources working,
\* get_realtime_metrics raises nothing and returns a snapshot whose GPU block
\* holds the unavailable marker under every one of its keys, while the RAM
\* block holds its three figures and the CPU block its usage figure and its
\* temperature, or the marker where no known sensor exists.
C22_UnsupportedPlatform ==
    (/\ mon.op = "capture"
     /\ Unsupported(mon.env)
     /\ \A src \in PsutilSources : mon.env.fail[src] = "ok") =>
        /\ ~mon.result.raised
        /\ DOMAIN mon.result.metrics = {"timestamp", "gpu", "cpu", "ram"}
        /\ DOMAIN mon.result.metrics["gpu"] =
               Range(GpuReadings) \cup {"hash_rate_mhps", "efficiency_jpmh"}
        /\ \A r \in DOMAIN mon.result.metrics["gpu"] :
              mon.result.metrics["gpu"][r] = NotAvailable
        /\ \A r \in {"total_gb", "used_gb", "usage_percent"} :
              IsNumeric(mon.result.metrics["ram"][r])
        /\ IsNumeric(mon.result.metrics["cpu"]["usage_percent"])
        /\ "temperature_celsius" \in DOMAIN mon.result.metrics["cpu"]

\* a capture on AMD under Windows, or on NVIDIA without the library, has
\* returned a snapshot with a CPU temperature and no GPU temperature
C22_Witness ==
    /\ mon.op = "capture"
    /\ \/ mon.env.gpu_brand = "AMD" /\ mon.env.os = "Windows"
       \/ mon.env.gpu_brand = "NVIDIA" /\ ~mon.env.nvml_available
    /\ ~mon.result.raised
    /\ IsNumeric(mon.result.metrics["cpu"]["temperature_celsius"])
    /\ mon.result.metrics["gpu"]["temp_celsius"] = NotAvailable

----------------------------------------------------------------------------
(* SpecNvml: the UI thread and the polling thread call get_realtime_metrics *)
(* on the one SystemMonitor, on NVIDIA with the vendor library.  The        *)
(* library is shared by the process: mon.held counts its acquisitions       *)
(* outstanding, and a vendor call made with none outstanding raises         *)
(* NVMLError_Uninitialized.  A thread keeps in local whether its own        *)
(* nvmlInit succeeded and which call of the try block it is at.             *)

NvmlOutcomes == {"ok", "NVMLError"}

NvmlLocals == [acquired |-> FALSE, step |-> 1]

InitNvml ==
    /\ clock = 0
    /\ store = EmptyDict
    /\ log = <<>>
    /\ calls = <<>>
    /\ last = NoCall
    /\ last_save = NoCall
    /\ faults = 0
    /\ mon = [op |-> "library", held |-> 0]
    /\ pc = [ui |-> "idle", poll |-> "idle"]
    /\ local = [ui |-> NvmlLocals, poll |-> NvmlLocals]
    /\ stop_logging = FALSE
    /\ kb = EmptyDict
    /\ app = AppInit
    /\ config_file = JsonDump(DefaultConfig)

\* get_realtime_metrics is entered and pynvml.nvmlInit() called; its error
\* goes to the except clause and from there to the finally clause
NvmlInitStep(th, outcome) ==
    /\ pc[th] = "idle"
    /\ mon.held < MaxHeld
    /\ mon' = [mon EXCEPT !.held = NvmlInit(mon.held, outcome)]
    /\ local' = [local EXCEPT ![th] = [acquired |-> outcome = "ok", step |-> 2]]
    /\ pc' = [pc EXCEPT ![th] = IF outcome = "ok" THEN "read" ELSE "shutdown"]
    /\ last' = [op |-> "nvmlInit", th |-> th]
    /\ UNCHANGED <<clock, store, log, calls, last_save, faults, stop_logging, kb, app, config_file>>

\* the next vendor call of the try block; an error of it, the library being
\* released under the thread included, goes to the except clause
NvmlReadStep(th, outcome) ==
    /\ pc[th] = "read"
    /\ LET raises == mon.held = 0 \/ outcome # "ok"
           last_step == local[th].step = Len(NvmlSteps)
       IN  /\ pc' = [pc EXCEPT ![th] = IF raises \/ last_step THEN "shutdown" ELSE "read"]
           /\ local' = [local EXCEPT ![th].step = IF raises \/ last_step THEN @ ELSE @ + 1]
           /\ last' = [op |-> NvmlSteps[local[th].step], th |-> th,
                       error |-> IF mon.held = 0 THEN "Uninitialized"
                                 ELSE IF outcome # "ok" THEN outcome ELSE "none"]
    /\ UNCHANGED <<clock, store, log, calls, last_save, faults, mon, stop_logging, kb, app, config_file>>

\* finally: pynvml.nvmlShutdown(), NVMLError_Uninitialized passed over; the
\* call of get_realtime_metrics goes on to the psutil readings and returns
NvmlShutdownStep(th, outcome) ==
    /\ pc[th] = "shutdown"
    /\ LET sd == NvmlShutdown(mon.held, outcome)
       IN  /\ mon' = [mon EXCEPT !.held = sd.held]
           /\ last' = [op |-> "nvmlShutdown", th |-> th, error |-> sd.error]
    /\ pc' = [pc EXCEPT ![th] = "idle"]
    /\ local' = [local EXCEPT ![th] = NvmlLocals]
    /\ UNCHANGED <<clock, store, log, calls, last_save, faults, stop_logging, kb, app, config_file>>

NextNvml ==
    \/ \E th \in Threads, outcome \in NvmlOutcomes : NvmlInitStep(th, outcome)
    \/ \E th \in Threads, outcome \in NvmlOutcomes : NvmlReadStep(th, outcome)
    \/ \E th \in Threads, outcome \in NvmlOutcomes : NvmlShutdownStep(th, outcome)

SpecNvml == InitNvml /\ [][NextNvml]_vars

----------------------------------------------------------------------------
(* Claims about concurrent captures (SpecNvml) *)

\* the thread leaves its finally clause in the step
ShutdownCalledBy(th) == pc[th] = "shutdown" /\ pc'[th] = "idle"

C23_OwnRelease ==
    \A th \in Threads :
        (ShutdownCalledBy(th) /\ ~local[th].acquired) => mon'.held = mon.held

C23_StillAcquired ==
    \A th \in Threads : (pc[th] = "read" /\ local[th].acquired) => mon.held >= 1

\* C23: a call of get_realtime_metrics whose own nvmlInit failed releases
\* nothing when it leaves its finally clause, and the library stays acquired
\* for as long as a call that acquired it is at its vendor calls.
C23_ReleaseOnlyOwn == []C23_StillAcquired /\ [][C23_OwnRelease]_vars

----------------------------------------------------------------------------
(* Claims about who writes the documents (SpecLive) *)

\* C24: a step that changes a recommendation document is taken by the UI
\* thread from its event loop: no other handler is running, the polling
\* thread takes no part in it and is where it was, no worker thread ends or
\* starts in it, and the metrics log is not written in it.
C24_WriterStep ==
    store' # store =>
        /\ pc["ui"] = "idle"
        /\ pc' = pc
        /\ local' = local
        /\ app'.workers = app.workers
        /\ log' = log

C24_UiThreadWrites == [][C24_WriterStep]_vars

\* the record of a request was saved and then updated from the dialog while
\* the polling thread was inside log_metrics
C24_Witness ==
    /\ last.op = "apply_update"
    /\ last.changed
    /\ StatusOf(store, RecId(0)) = "FAILED"
    /\ pc["poll"] \in InLogMetrics

----------------------------------------------------------------------------
(* Claims about the figures entered in the update dialog (SpecReq) *)

\* C25: when apply_update has updated an existing record with a hash rate
\* or a power figure entered, the actual-performance mapping stored in the
\* record holds, under gpu, every figure entered with the value entered.
C25_EnteredFiguresKept ==
    (/\ last.op = "apply_update"
     /\ last.changed
     /\ last.io = "ok"
     /\ HasKey(last.entered, "gpu")) =>
        LET stored == JsonLoad(store[last.rec_id[1]])["actual_performance_after_apply"]
        IN  /\ HasKey(stored, "gpu")
            /\ \A k \in DOMAIN last.entered["gpu"] :
                  /\ HasKey(stored["gpu"], k)
                  /\ stored["gpu"][k] = last.entered["gpu"][k]


-----------------------------------------------------------------------------
(* Claims about the requests in flight (SpecReq) *)

\* the _display_recommendation callbacks waiting in the event loop
WaitingResults == {i \in DOMAIN app.queue : app.queue[i].cb = "_display_recommendation"}

\* the error reports of a failed request waiting in the event loop
WaitingReports == {i \in DOMAIN app.queue : app.queue[i].cb = "update_status"}

\* C26: at most one request is under way at any time, counting the worker
\* threads running and the results waiting to be displayed and saved; and
\* while a worker runs, or its result or its error report waits, the button
\* is disabled.
C26_OneRequestInFlight ==
    /\ Len(app.workers) + Cardinality(WaitingResults) <= 1
    /\ (app.workers # <<>> \/ WaitingResults # {} \/ WaitingReports # {}) =>
           app.get_rec_button = "disabled"

\* a request is under way after an earlier one was displayed and saved
C26_Witness ==
    /\ Len(app.workers) = 1
    /\ app.get_rec_button = "disabled"
    /\ Exists(store, RecId(0))


-----------------------------------------------------------------------------
(* Claims about the button after a request (SpecReqFair) *)

\* C27: whenever the button is disabled, it is enabled again later, unless
\* the window is closed or the clock of the model has run out first.
C27_ButtonEnabledAgain ==
    (app.get_rec_button = "disabled") ~>
        (app.get_rec_button = "normal" \/ pc["ui"] = "closed" \/ clock = MaxUiClock)


-----------------------------------------------------------------------------
(* Claims about the snapshot of a request (SpecSnap) *)

\* the snapshots carried by the requests under way: the arguments of the
\* worker threads and of the _display_recommendation callbacks waiting
CarriedSnapshots(a) ==
    {a.workers[i].metrics_at_rec : i \in DOMAIN a.workers} \cup
    {a.queue[i].metrics_at_rec :
        i \in {j \in DOMAIN a.queue : a.queue[j].cb = "_display_recommendation"}}

\* C29: the step that accepts a request gives its worker the snapshot the UI
\* holds at that moment; no step changes the snapshot a request under way
\* carries, whatever the threads capture meanwhile; and the step that
\* displays the result stores, as the record's snapshot, the snapshot the
\* request carried.
C29_SnapshotStep ==
    /\ (app.workers = <<>> /\ app'.workers # <<>>) =>
          CarriedSnapshots(app') = {app.current_metrics}
    /\ (CarriedSnapshots(app) # {} /\ CarriedSnapshots(app') # {}) =>
          CarriedSnapshots(app') = CarriedSnapshots(app)
    /\ (DisplayedStep /\ clock' # clock) =>
          JsonLoad(store'[last'.ret])["system_snapshot_at_recommendation"]
              = Head(app.queue).metrics_at_rec

C29_SnapshotAtAcceptance == [][C29_SnapshotStep]_vars

\* a result has been displayed and saved after the refresh had replaced,
\* during the request, the snapshot the UI holds by a different one
C29_Witness ==
    /\ last.op = "display_recommendation"
    /\ last.io = "ok"
    /\ last.refreshed

====
